---- MODULE Spec2Model ----
(***************************************************************************)
(* Chronicle capture admission control: the Sampler                        *)
(* (src/integrations/sampling.py), the quota limiters TypeLimiter and      *)
(* FunctionLimiter (src/integrations/ui.py) and the capture pipeline       *)
(* ChronicleMiddleware.dispatch (src/integrations/fastapi.py).             *)
(*                                                                         *)
(* Conventions.                                                            *)
(*  - A Python dict is a TLA+ function whose DOMAIN is the set of keys     *)
(*    present; Get/Put/Del are dict.get, item assignment and del.          *)
(*  - A rate (a float in the source) is an integer number of hundredths;   *)
(*    random.random() is a draw u from Draws, in hundredths of [0, 1).     *)
(*  - A path is the sequence of its characters, so that lower(),           *)
(*    startswith() and rstrip("/") are computed on it.                     *)
(*  - A section of code run under "with self._lock" is one atomic step;    *)
(*    the reads a method makes before it takes the lock are steps of their *)
(*    own, so that callers interleave as threads do.                       *)
(***************************************************************************)
EXTENDS Integers, Sequences, FiniteSets, TLC

\* ------------------------------------------------------------------ bounds
NumThreads == 2
MaxCalls == 3
MaxLimit == 2
\* should_capture calls made on a sampler by concurrent callers, calls and
\* requests made by a single caller, the largest head_count and
\* max_patterns_per_endpoint, and the latest clock reading.
MaxSamples == 4
MaxSerial == 2
\* Calls made on a sampler under ADAPTIVE by concurrent callers.
MaxRecords == 2
\* fastapi._max_stored_requests (10000 in the source), held at a bound.
MaxStored == 2
\* _store_captured_request calls made in a row.
MaxStores == 4
\* should_capture calls made on a limiter and a sampler whose locks are taken
\* step by step.
MaxLocked == 2
MaxHead == 2
MaxPatterns == 2
MaxTime == 2
\* Tasks created, TaskDatabase methods started, and the largest max_retries
\* a task is created with.
MaxTasks == 2
MaxOps == 5
MaxRetries == 1
\* adaptive_window_seconds (60 in the source), in clock readings.
AdaptiveWindow == 1

Threads == 1..NumThreads

\* ------------------------------------------------------------ dict helpers
EmptyDict == [x \in {} |-> 0]
Get(d, k, default) == IF k \in DOMAIN d THEN d[k] ELSE default
Put(d, k, v) == [x \in (DOMAIN d) \cup {k} |-> IF x = k THEN v ELSE d[x]]
Del(d, k) == [x \in (DOMAIN d) \ {k} |-> d[x]]
Min(a, b) == IF a <= b THEN a ELSE b

\* ------------------------------------------------------- request payloads
\* Python values that occur as request bodies: None, a str, a dict.
PyNone == [k |-> "none"]
PyStr(s) == [k |-> "str", s |-> s]
PyDict(d) == [k |-> "dict", d |-> d]

Bodies ==
    { PyNone,
      PyStr("raw"),
      PyDict("type" :> PyStr("A")),
      PyDict("type" :> PyStr("B")),
      PyDict("type" :> PyNone),
      PyDict("data" :> PyDict("type" :> PyStr("A"))) }

\* field_path.split("."): the model holds a field path as its list of parts.
FieldPaths == { <<"type">>, <<"data", "type">> }

\* The keys quota is counted on: type values / function names.
Keys == {"A", "B"}
\* Optional[str] None, as returned for "no type value".
NoKey == "<None>"

\* random.random() draws, in hundredths; rates, in hundredths.
Draws == {0, 99}
Rates == {0, 1, 100}

\* Request paths, as character sequences.
PathA == <<"/", "a">>
PathB == <<"/", "b">>
PathH == <<"/", "h">>
PathHx == <<"/", "H", "x">>
\* A path under the dashboard prefix "/_chronicle".
DashboardPrefix == <<"/", "_", "c", "h", "r", "o", "n", "i", "c", "l", "e">>
PathDashboard == DashboardPrefix \o <<"/">>
LimiterEndpoints == {PathA, PathH}

\* Optional[int] / Optional[float] None, for status_code and duration_ms.
None == -1

\* -------------------------------------------------------------- variables
VARIABLES
    kind,        \* the limiter's class: "type" (TypeLimiter) or "function" (FunctionLimiter)
    enabled,     \* self._enabled
    config,      \* self.config
    endpoints,   \* self._endpoints / self._function_configs: per-scope configs
    counts,      \* self._state.counts
    stopped,     \* self._state.stopped_types / stopped_functions
    alerts,      \* self._state.alerts
    lpc,         \* per thread: position inside should_capture
    lframe,      \* per thread: arguments and locals of should_capture
    returned,    \* observation log: per key, the decisions since the key's last reset, in lock order
    alerted,     \* observation log: per key, the alerts appended since the key's last reset
    ncalls,      \* observation log: number of should_capture calls started
    sconfig,          \* Sampler.config
    seen_patterns,    \* Sampler._seen_patterns
    head_counts,      \* Sampler._head_counts
    recent_requests,  \* Sampler._recent_requests
    adaptive_rate,    \* Sampler._adaptive_rate
    now,              \* the latest value time.time() has returned
    spc,              \* per thread: position inside Sampler.should_capture
    sframe,           \* per thread: arguments and locals of Sampler.should_capture
    decided,          \* observation log: per scope, the strategy-step decisions since the last reset
    nsamples,         \* observation log: number of Sampler.should_capture calls started
    captured_requests,  \* fastapi._captured_requests
    dpc,                \* per thread: position inside ChronicleMiddleware.dispatch
    dframe,             \* per thread: locals of ChronicleMiddleware.dispatch
    nrequests,          \* observation log: number of requests dispatched
    last_op,            \* observation log: the operation just made
    upd,                \* the dashboard's update_type_limits / update_function_limits: position and body
    tasks,              \* TaskDatabase: the rows of the tasks table, by id
    utcnow,             \* the latest value datetime.utcnow() has returned
    ncreated,           \* TaskDatabase: number of ids uuid4() has handed out
    wpc,                \* per worker thread: position inside a TaskDatabase method
    wframe,             \* per worker thread: arguments and locals of the method
    hist,               \* observation log: per task id, what was asked at creation and done since
    nops,               \* observation log: number of TaskDatabase methods started
    lock                \* self._lock of the limiter and of the sampler: who holds it, who is inside

limVars == <<kind, enabled, config, endpoints, counts, stopped, alerts>>
thrVars == <<lpc, lframe>>
obsVars == <<returned, alerted, ncalls>>
samVars == <<sconfig, seen_patterns, head_counts, recent_requests, adaptive_rate>>
samState == <<seen_patterns, head_counts, recent_requests, adaptive_rate>>
limiterVars == <<limVars, thrVars, obsVars>>
samplerVars == <<samVars, now, spc, sframe, decided, nsamples>>
pipelineVars == <<captured_requests, dpc, dframe, nrequests>>
opVars == <<last_op>>
updVars == <<upd>>
taskVars == <<tasks, utcnow, ncreated, wpc, wframe, hist, nops>>
lockVars == <<lock>>
vars == <<kind, enabled, config, endpoints, counts, stopped, alerts,
          lpc, lframe, returned, alerted, ncalls,
          sconfig, seen_patterns, head_counts, recent_requests, adaptive_rate,
          now, spc, sframe, decided, nsamples,
          captured_requests, dpc, dframe, nrequests, last_op,
          upd, tasks, utcnow, ncreated, wpc, wframe, hist, nops, lock>>

\* ---------------------------------------------------------- limiter config
\* TypeLimitConfig / FunctionLimitConfig.  `limit` is limit_per_type, resp.
\* limit_per_function; FunctionLimitConfig has no field_path (held as << >>).
TypeLimitConfigs ==
    [ field_path : FieldPaths,
      limit : 0..MaxLimit,
      alert_on_limit : BOOLEAN,
      limit_action : {"stop", "sample"},
      overflow_sample_rate : Rates ]

FunctionLimitConfigs ==
    [ field_path : { << >> },
      limit : 0..MaxLimit,
      alert_on_limit : BOOLEAN,
      limit_action : {"stop", "sample"},
      overflow_sample_rate : Rates ]

\* Under limit_action = "stop" the overflow rate is never read: it keeps its default.
DefaultOverflowRate == 1
ConfigsOf(k) ==
    { c \in (IF k = "type" THEN TypeLimitConfigs ELSE FunctionLimitConfigs) :
        c.limit_action = "stop" => c.overflow_sample_rate = DefaultOverflowRate }

\* The scope that is given a config of its own: an endpoint path for a
\* TypeLimiter, a function name for a FunctionLimiter.  The other endpoint
\* and the other function stay on the global config.
ScopesOf(k) == IF k = "type" THEN {PathA} ELSE {"A"}

\* No reset or alert operation has just been made.
NoOp == [op |-> "none"]

\* No dashboard update of the limiter is in progress.
NoUpdate == [pc |-> "idle"]

\* threading.Lock(): held by no thread (holder 0); `inside` names, per
\* thread, the method whose "with self._lock:" the thread has reached.
Unlocked == [ holder |-> 0, inside |-> [t \in Threads |-> "none"] ]

\* The two locks: TypeLimiter._lock / FunctionLimiter._lock and Sampler._lock.
Components == {"limiter", "sampler"}

\* ------------------------------------------------------------ thread frame
IdleFrame ==
    [ scope |-> << >>, body |-> PyNone, cfg |-> << >>, key |-> NoKey,
      allowed |-> TRUE, type_value |-> NoKey ]

\* TypeLimiter._extract_type_value
RECURSIVE WalkPath(_, _)
WalkPath(current, parts) ==
    IF parts = << >> THEN current
    ELSE IF current.k = "dict" /\ Head(parts) \in DOMAIN current.d
         THEN WalkPath(current.d[Head(parts)], Tail(parts))
         ELSE PyNone

\* str(current) for the values that occur as a type value.
StrOf(v) == IF v.k = "str" THEN v.s ELSE "{...}"

ExtractTypeValue(body, field_path) ==
    IF body.k = "none" THEN NoKey
    ELSE IF body.k # "dict" THEN NoKey
    ELSE LET current == WalkPath(body, field_path)
         IN  IF current.k = "none" THEN NoKey ELSE StrOf(current)

\* One alert record (the timestamp is left out: nothing reads it back).
Alert(key, count, scope, limit) ==
    [ key |-> key, count |-> count, scope |-> scope, limit |-> limit ]

\* random.random() < config.overflow_sample_rate
OverflowSample(cfg, u) == u < cfg.overflow_sample_rate

\* Mutants of the locked section (each a slip the code could have made).
\* The limit taken as exclusive: a call is let through while count <= limit.
LockedDecide_LimitExclusive(cnts, stp, alr, key, scope, cfg, u) ==
    IF key \in stp
    THEN [ allowed |-> IF cfg.limit_action = "stop" THEN FALSE ELSE OverflowSample(cfg, u),
           counts |-> cnts, stopped |-> stp, alerts |-> alr ]
    ELSE LET count == Get(cnts, key, 0) IN
         IF count > cfg.limit
         THEN [ allowed |-> IF cfg.limit_action = "stop" THEN FALSE ELSE OverflowSample(cfg, u),
                counts |-> cnts,
                stopped |-> stp \cup {key},
                alerts |-> IF key \notin stp /\ cfg.alert_on_limit
                           THEN Append(alr, Alert(key, count, scope, cfg.limit))
                           ELSE alr ]
         ELSE LET hit == count + 1 > cfg.limit IN
              [ allowed |-> TRUE,
                counts |-> Put(cnts, key, count + 1),
                stopped |-> IF hit THEN stp \cup {key} ELSE stp,
                alerts |-> IF hit /\ key \notin stp /\ cfg.alert_on_limit
                           THEN Append(alr, Alert(key, count + 1, scope, cfg.limit))
                           ELSE alr ]

\* An alert appended for every call that finds the key stopped.
LockedDecide_AlertEveryDenied(cnts, stp, alr, key, scope, cfg, u) ==
    IF key \in stp
    THEN [ allowed |-> IF cfg.limit_action = "stop" THEN FALSE ELSE OverflowSample(cfg, u),
           counts |-> cnts, stopped |-> stp,
           alerts |-> IF cfg.alert_on_limit
                      THEN Append(alr, Alert(key, Get(cnts, key, 0), scope, cfg.limit))
                      ELSE alr ]
    ELSE LET count == Get(cnts, key, 0) IN
         IF count >= cfg.limit
         THEN [ allowed |-> IF cfg.limit_action = "stop" THEN FALSE ELSE OverflowSample(cfg, u),
                counts |-> cnts,
                stopped |-> stp \cup {key},
                alerts |-> IF key \notin stp /\ cfg.alert_on_limit
                           THEN Append(alr, Alert(key, count, scope, cfg.limit))
                           ELSE alr ]
         ELSE LET hit == count + 1 >= cfg.limit IN
              [ allowed |-> TRUE,
                counts |-> Put(cnts, key, count + 1),
                stopped |-> IF hit THEN stp \cup {key} ELSE stp,
                alerts |-> IF hit /\ key \notin stp /\ cfg.alert_on_limit
                           THEN Append(alr, Alert(key, count + 1, scope, cfg.limit))
                           ELSE alr ]

\* The alert of the incrementing call records the count read before the increment.
LockedDecide_AlertStaleCount(cnts, stp, alr, key, scope, cfg, u) ==
    IF key \in stp
    THEN [ allowed |-> IF cfg.limit_action = "stop" THEN FALSE ELSE OverflowSample(cfg, u),
           counts |-> cnts, stopped |-> stp, alerts |-> alr ]
    ELSE LET count == Get(cnts, key, 0) IN
         IF count >= cfg.limit
         THEN [ allowed |-> IF cfg.limit_action = "stop" THEN FALSE ELSE OverflowSample(cfg, u),
                counts |-> cnts,
                stopped |-> stp \cup {key},
                alerts |-> IF key \notin stp /\ cfg.alert_on_limit
                           THEN Append(alr, Alert(key, count, scope, cfg.limit))
                           ELSE alr ]
         ELSE LET hit == count + 1 >= cfg.limit IN
              [ allowed |-> TRUE,
                counts |-> Put(cnts, key, count + 1),
                stopped |-> IF hit THEN stp \cup {key} ELSE stp,
                alerts |-> IF hit /\ key \notin stp /\ cfg.alert_on_limit
                           THEN Append(alr, Alert(key, count, scope, cfg.limit))
                           ELSE alr ]

\* A call let through by the overflow draw is counted.
LockedDecide_CountsOverflow(cnts, stp, alr, key, scope, cfg, u) ==
    IF key \in stp
    THEN LET ok == IF cfg.limit_action = "stop" THEN FALSE ELSE OverflowSample(cfg, u) IN
         [ allowed |-> ok,
           counts |-> IF ok THEN Put(cnts, key, Get(cnts, key, 0) + 1) ELSE cnts,
           stopped |-> stp, alerts |-> alr ]
    ELSE LET count == Get(cnts, key, 0) IN
         IF count >= cfg.limit
         THEN [ allowed |-> IF cfg.limit_action = "stop" THEN FALSE ELSE OverflowSample(cfg, u),
                counts |-> cnts,
                stopped |-> stp \cup {key},
                alerts |-> IF key \notin stp /\ cfg.alert_on_limit
                           THEN Append(alr, Alert(key, count, scope, cfg.limit))
                           ELSE alr ]
         ELSE LET hit == count + 1 >= cfg.limit IN
              [ allowed |-> TRUE,
                counts |-> Put(cnts, key, count + 1),
                stopped |-> IF hit THEN stp \cup {key} ELSE stp,
                alerts |-> IF hit /\ key \notin stp /\ cfg.alert_on_limit
                           THEN Append(alr, Alert(key, count + 1, scope, cfg.limit))
                           ELSE alr ]

\* The key marked as stopped only by the call that finds the count at the
\* limit, not by the call that brings it there.
LockedDecide_StoppedOnNextCall(cnts, stp, alr, key, scope, cfg, u) ==
    IF key \in stp
    THEN [ allowed |-> IF cfg.limit_action = "stop" THEN FALSE ELSE OverflowSample(cfg, u),
           counts |-> cnts, stopped |-> stp, alerts |-> alr ]
    ELSE LET count == Get(cnts, key, 0) IN
         IF count >= cfg.limit
         THEN [ allowed |-> IF cfg.limit_action = "stop" THEN FALSE ELSE OverflowSample(cfg, u),
                counts |-> cnts,
                stopped |-> stp \cup {key},
                alerts |-> IF key \notin stp /\ cfg.alert_on_limit
                           THEN Append(alr, Alert(key, count, scope, cfg.limit))
                           ELSE alr ]
         ELSE [ allowed |-> TRUE,
                counts |-> Put(cnts, key, count + 1),
                stopped |-> stp,
                alerts |-> alr ]

\* The body of "with self._lock" in should_capture: the decision for `key`
\* and the state it leaves.
LockedDecide(cnts, stp, alr, key, scope, cfg, u) ==
    IF key \in stp
    THEN [ allowed |-> IF cfg.limit_action = "stop" THEN FALSE ELSE OverflowSample(cfg, u),
           counts |-> cnts, stopped |-> stp, alerts |-> alr ]
    ELSE LET count == Get(cnts, key, 0) IN
         IF count >= cfg.limit
         THEN [ allowed |-> IF cfg.limit_action = "stop" THEN FALSE ELSE OverflowSample(cfg, u),
                counts |-> cnts,
                stopped |-> stp \cup {key},
                alerts |-> IF key \notin stp /\ cfg.alert_on_limit
                           THEN Append(alr, Alert(key, count, scope, cfg.limit))
                           ELSE alr ]
         ELSE LET hit == count + 1 >= cfg.limit IN
              [ allowed |-> TRUE,
                counts |-> Put(cnts, key, count + 1),
                stopped |-> IF hit THEN stp \cup {key} ELSE stp,
                alerts |-> IF hit /\ key \notin stp /\ cfg.alert_on_limit
                           THEN Append(alr, Alert(key, count + 1, scope, cfg.limit))
                           ELSE alr ]

\* ------------------------------------------------- should_capture, by steps
\* TypeLimiter.should_capture going on to the config whatever _enabled is.
TypeShouldCaptureBegin_IgnoresEnabled(t, endpoint, body) ==
    /\ kind = "type"
    /\ lpc[t] \in {"idle", "done", "raised"}
    /\ ncalls < MaxCalls
    /\ ncalls' = ncalls + 1
    /\ lframe' = [lframe EXCEPT ![t] = [IdleFrame EXCEPT !.scope = endpoint, !.body = body]]
    /\ lpc' = [lpc EXCEPT ![t] = "get_config"]
    /\ UNCHANGED <<limVars, returned, alerted>>

\* TypeLimiter.should_capture(endpoint, request_body): the read of _enabled.
TypeShouldCaptureBegin(t, endpoint, body) ==
    /\ kind = "type"
    /\ lpc[t] \in {"idle", "done", "raised"}
    /\ ncalls < MaxCalls
    /\ ncalls' = ncalls + 1
    /\ lframe' = [lframe EXCEPT ![t] = IF enabled
                                        THEN [IdleFrame EXCEPT !.scope = endpoint, !.body = body]
                                        ELSE IdleFrame]
    /\ lpc' = [lpc EXCEPT ![t] = IF enabled THEN "get_config" ELSE "done"]
    /\ UNCHANGED <<limVars, returned, alerted>>

\* FunctionLimiter.should_capture(function_name): the read of _enabled.
FunctionShouldCaptureBegin(t, function_name) ==
    /\ kind = "function"
    /\ lpc[t] \in {"idle", "done", "raised"}
    /\ ncalls < MaxCalls
    /\ ncalls' = ncalls + 1
    /\ lframe' = [lframe EXCEPT ![t] = IF enabled
                                        THEN [IdleFrame EXCEPT !.scope = function_name]
                                        ELSE IdleFrame]
    /\ lpc' = [lpc EXCEPT ![t] = IF enabled THEN "get_config" ELSE "done"]
    /\ UNCHANGED <<limVars, returned, alerted>>

\* get_config: the membership test "scope in self._endpoints".
GetConfigTest(t) ==
    /\ lpc[t] = "get_config"
    /\ lpc' = [lpc EXCEPT ![t] =
                 IF lframe[t].scope \in DOMAIN endpoints THEN "read_override" ELSE "read_config"]
    /\ UNCHANGED <<limVars, lframe, obsVars>>

\* What should_capture does with the config it got: extract the key
\* (TypeLimiter) or take the function name, and go for the lock.
WithConfig(t, cfg) ==
    LET key == IF kind = "type" THEN ExtractTypeValue(lframe[t].body, cfg.field_path)
               ELSE lframe[t].scope
    IN  IF key = NoKey
        THEN /\ lframe' = [lframe EXCEPT ![t] = IdleFrame]
             /\ lpc' = [lpc EXCEPT ![t] = "done"]
        ELSE /\ lframe' = [lframe EXCEPT ![t].cfg = cfg, ![t].key = key, ![t].type_value = key,
                                         ![t].body = PyNone]
             /\ lpc' = [lpc EXCEPT ![t] = "lock"]

\* get_config: "return self._endpoints[scope]"; the entry may have been
\* popped since the membership test, and the subscript then raises KeyError.
GetConfigOverride(t) ==
    /\ lpc[t] = "read_override"
    /\ IF lframe[t].scope \in DOMAIN endpoints
       THEN WithConfig(t, endpoints[lframe[t].scope])
       ELSE /\ lpc' = [lpc EXCEPT ![t] = "raised"]
            /\ lframe' = [lframe EXCEPT ![t] = IdleFrame]
    /\ UNCHANGED <<limVars, obsVars>>

\* get_config: "return self.config".
GetConfigDefault(t) ==
    /\ lpc[t] = "read_config"
    /\ WithConfig(t, config)
    /\ UNCHANGED <<limVars, obsVars>>

\* should_capture: the section under the lock.
ShouldCaptureLocked(t, u) ==
    /\ lpc[t] = "lock"
    /\ LET f == lframe[t]
           r == LockedDecide(counts, stopped, alerts, f.key, f.scope, f.cfg, u)
       IN  /\ counts' = r.counts
           /\ stopped' = r.stopped
           /\ alerts' = r.alerts
           /\ lframe' = [lframe EXCEPT ![t] = [IdleFrame EXCEPT !.allowed = r.allowed,
                                                                 !.type_value = f.key]]
           /\ returned' = [returned EXCEPT ![f.key] = Append(@, r.allowed)]
           /\ alerted' = [alerted EXCEPT ![f.key] = @ + Len(r.alerts) - Len(alerts)]
    /\ lpc' = [lpc EXCEPT ![t] = "done"]
    /\ UNCHANGED <<kind, enabled, config, endpoints, ncalls>>

\* ------------------------------------------------------ reset and alert ops
\* reset_type / reset_function with the count deleted without the membership
\* test: "del" raises KeyError for a key that has no count, before the
\* discard is reached.
ResetState_UnguardedDel(cnts, stp, key) ==
    IF key \in DOMAIN cnts
    THEN [ counts |-> Del(cnts, key), stopped |-> stp \ {key}, raised |-> FALSE ]
    ELSE [ counts |-> cnts, stopped |-> stp, raised |-> TRUE ]

\* reset_type / reset_function without the discard from the stopped set.
ResetState_KeepsStopped(cnts, stp, key) ==
    [ counts |-> IF key \in DOMAIN cnts THEN Del(cnts, key) ELSE cnts,
      stopped |-> stp,
      raised |-> FALSE ]

\* reset_type / reset_function, the section under the lock: what it leaves in
\* the count map and the stopped set, and whether it raised.
ResetState(cnts, stp, key) ==
    [ counts |-> IF key \in DOMAIN cnts THEN Del(cnts, key) ELSE cnts,
      stopped |-> stp \ {key},
      raised |-> FALSE ]

\* reset_type / reset_function
ResetKey(key) ==
    /\ counts' = ResetState(counts, stopped, key).counts
    /\ stopped' = ResetState(counts, stopped, key).stopped
    /\ returned' = [returned EXCEPT ![key] = << >>]
    /\ alerted' = [alerted EXCEPT ![key] = 0]
    /\ UNCHANGED <<kind, enabled, config, endpoints, alerts, thrVars, ncalls>>

\* reset_all with the alert log left as it is.
ResetAll_KeepsAlerts ==
    /\ counts' = EmptyDict
    /\ stopped' = {}
    /\ returned' = [k \in Keys |-> << >>]
    /\ alerted' = [k \in Keys |-> 0]
    /\ UNCHANGED <<kind, enabled, config, endpoints, alerts, thrVars, ncalls>>

\* reset_all
ResetAll ==
    /\ counts' = EmptyDict
    /\ stopped' = {}
    /\ alerts' = << >>
    /\ returned' = [k \in Keys |-> << >>]
    /\ alerted' = [k \in Keys |-> 0]
    /\ UNCHANGED <<kind, enabled, config, endpoints, thrVars, ncalls>>

\* clear_alerts
ClearAlerts ==
    /\ alerts' = << >>
    /\ UNCHANGED <<kind, enabled, config, endpoints, counts, stopped, thrVars, obsVars>>

\* seq[start:] of a Python list: a negative start counts from the end and is
\* clamped at the first element; a start of 0 (which is what -0 is) takes the
\* whole list.
PySliceFrom(seq, start) ==
    LET n == Len(seq)
        first == IF start < 0 THEN (IF n + start < 0 THEN 0 ELSE n + start)
                 ELSE (IF start > n THEN n ELSE start)
    IN  SubSeq(seq, first + 1, n)

\* reversed(seq)
Reversed(seq) == [i \in 1..Len(seq) |-> seq[Len(seq) + 1 - i]]

\* get_alerts(limit): list(reversed(self._state.alerts[-limit:]))
GetAlerts(alr, limit) == Reversed(PySliceFrom(alr, 0 - limit))

\* get_alerts as a step: it returns GetAlerts(alerts, limit) and assigns nothing.
GetAlertsCall(limit) ==
    UNCHANGED <<limVars, thrVars, obsVars>>

\* ------------------------------------------------------------ config ops
\* enable(scope=None, config=None)
Enable ==
    /\ enabled' = TRUE
    /\ UNCHANGED <<kind, config, endpoints, counts, stopped, alerts, thrVars, obsVars>>

\* enable(scope, config)
EnableScope(scope, cfg) ==
    /\ enabled' = TRUE
    /\ endpoints' = Put(endpoints, scope, cfg)
    /\ UNCHANGED <<kind, config, counts, stopped, alerts, thrVars, returned, alerted, ncalls>>

\* disable()
Disable ==
    /\ enabled' = FALSE
    /\ UNCHANGED <<kind, config, endpoints, counts, stopped, alerts, thrVars, obsVars>>

\* disable(scope)
DisableScope(scope) ==
    /\ endpoints' = IF scope \in DOMAIN endpoints THEN Del(endpoints, scope) ELSE endpoints
    /\ UNCHANGED <<kind, enabled, config, counts, stopped, alerts, thrVars, obsVars>>

\* set_config(config)
SetConfig(cfg) ==
    /\ config' = cfg
    /\ UNCHANGED <<kind, enabled, endpoints, counts, stopped, alerts, thrVars, returned, alerted, ncalls>>

\* set_config(config, scope)
SetConfigScope(cfg, scope) ==
    /\ endpoints' = Put(endpoints, scope, cfg)
    /\ UNCHANGED <<kind, enabled, config, counts, stopped, alerts, thrVars, returned, alerted, ncalls>>

\* dict.get(key, default) on the JSON body of a dashboard update
FieldOr(data, k, current) == IF k \in DOMAIN data THEN data[k] ELSE current

\* configure_type_limits(cfg) / configure_function_limits(cfg): the global
\* limiter becomes a new instance constructed with cfg and enabled; counts,
\* stopped keys, alerts and per-scope configs are those of the new instance.
\* Taken while no should_capture call is inside the limiter (a call in
\* progress stays on the instance it was made on).
ConfigureLimits(cfg) ==
    /\ \A t \in Threads : lpc[t] \in {"idle", "done", "raised"}
    /\ config' = cfg
    /\ enabled' = TRUE
    /\ endpoints' = EmptyDict
    /\ counts' = EmptyDict
    /\ stopped' = {}
    /\ alerts' = << >>
    /\ returned' = [k \in Keys |-> << >>]
    /\ alerted' = [k \in Keys |-> 0]
    /\ UNCHANGED <<kind, thrVars, ncalls>>

\* The dashboard's update_type_limits / update_function_limits: enable() or
\* disable() if the body has "enabled", then set_config with each field taken
\* from the body or, failing that, from the limiter's config.
UpdateLimits(data) ==
    LET limit_key == IF kind = "type" THEN "limit_per_type" ELSE "limit_per_function" IN
    /\ enabled' = FieldOr(data, "enabled", enabled)
    /\ config' = [ field_path |-> FieldOr(data, "field_path", config.field_path),
                   limit |-> FieldOr(data, limit_key, config.limit),
                   alert_on_limit |-> FieldOr(data, "alert_on_limit", config.alert_on_limit),
                   limit_action |-> FieldOr(data, "limit_action", config.limit_action),
                   overflow_sample_rate |->
                       FieldOr(data, "overflow_sample_rate", config.overflow_sample_rate) ]
    /\ UNCHANGED <<kind, endpoints, counts, stopped, alerts, thrVars, returned, alerted, ncalls>>

\* update_type_limits / update_function_limits by statements, for callers of
\* should_capture on other threads.  First statement: enable() or disable()
\* if the body has "enabled".  `before` is the flag and config the handler
\* found; `began` collects the should_capture calls that read _enabled
\* between this statement and set_config.
UpdateLimitsEnable(data) ==
    /\ upd.pc = "idle"
    /\ enabled' = FieldOr(data, "enabled", enabled)
    /\ upd' = [ pc |-> "set_config", data |-> data,
                before |-> [enabled |-> enabled, config |-> config], began |-> {} ]
    /\ UNCHANGED <<kind, config, endpoints, counts, stopped, alerts, thrVars, obsVars>>

\* The config the handler constructs: each field from the body or, failing
\* that, from the limiter's config as it is when the handler reads it.  The
\* dataclass takes any value for any field.
UpdatedConfig(data, current) ==
    [ field_path |-> FieldOr(data, "field_path", current.field_path),
      limit |-> FieldOr(data, IF kind = "type" THEN "limit_per_type" ELSE "limit_per_function",
                        current.limit),
      alert_on_limit |-> FieldOr(data, "alert_on_limit", current.alert_on_limit),
      limit_action |-> FieldOr(data, "limit_action", current.limit_action),
      overflow_sample_rate |->
          FieldOr(data, "overflow_sample_rate", current.overflow_sample_rate) ]

\* Second statement: the config is constructed and handed to set_config.
UpdateLimitsSetConfig ==
    /\ upd.pc = "set_config"
    /\ config' = UpdatedConfig(upd.data, config)
    /\ upd' = NoUpdate
    /\ UNCHANGED <<kind, enabled, endpoints, counts, stopped, alerts, thrVars, obsVars>>

\* ================================================================ sampler
\* ------------------------------------------------------------ path matching
\* str.lower(), on the letters that occur in the model's paths.
Lower(c) == IF c = "H" THEN "h" ELSE c
LowerStr(s) == [i \in 1..Len(s) |-> Lower(s[i])]

\* str.startswith
StartsWith(s, p) == Len(p) <= Len(s) /\ SubSeq(s, 1, Len(p)) = p

\* The test made on each entry of never_capture_endpoints / always_capture_endpoints.
PrefixMatch(endpoint, prefix) ==
    \/ LowerStr(endpoint) = LowerStr(prefix)
    \/ StartsWith(LowerStr(endpoint), LowerStr(prefix))

\* Sampler._should_skip_endpoint
ShouldSkipEndpoint(cfg, endpoint) ==
    \E skip \in cfg.never_capture_endpoints : PrefixMatch(endpoint, skip)

\* Sampler._should_always_capture_endpoint
ShouldAlwaysCaptureEndpoint(cfg, endpoint) ==
    \E always \in cfg.always_capture_endpoints : PrefixMatch(endpoint, always)

\* ---------------------------------------------------------- sampling config
\* SamplingConfig defaults that the model keeps as they are (rates in hundredths).
DefaultBaseRate == 10
DefaultLatencyThreshold == 1000
DefaultErrorMultiplier == 5
DefaultMaxRate == 100
ErrorStatusCodes == {404, 500}

Strategies == {"all", "random", "clustering", "adaptive", "head", "conditional"}

\* SamplingConfig(): the defaults, with head_count, max_patterns_per_endpoint
\* and adaptive_window_seconds held at the model's bounds, the error status
\* codes cut down to two of them and the never-capture set to one prefix.
DefaultSamplingConfig ==
    [ strategy |-> "random",
      base_rate |-> DefaultBaseRate,
      always_capture_errors |-> TRUE,
      always_capture_slow |-> TRUE,
      latency_threshold_ms |-> DefaultLatencyThreshold,
      max_patterns_per_endpoint |-> MaxPatterns,
      head_count |-> MaxHead,
      adaptive_window_seconds |-> AdaptiveWindow,
      adaptive_error_multiplier |-> DefaultErrorMultiplier,
      adaptive_max_rate |-> DefaultMaxRate,
      error_status_codes |-> ErrorStatusCodes,
      always_capture_endpoints |-> {},
      never_capture_endpoints |-> {PathH} ]

\* The settings of each strategy's own parameters.
StrategyConfigs ==
    { [DefaultSamplingConfig EXCEPT !.strategy = "all"],
      [DefaultSamplingConfig EXCEPT !.strategy = "conditional"] }
    \cup { [DefaultSamplingConfig EXCEPT !.strategy = "random", !.base_rate = r] :
             r \in {0, DefaultBaseRate, 100} }
    \cup { [DefaultSamplingConfig EXCEPT !.strategy = "clustering", !.base_rate = r] :
             r \in {0, 100} }
    \cup { [DefaultSamplingConfig EXCEPT !.strategy = "adaptive", !.adaptive_max_rate = m] :
             m \in {DefaultMaxRate, 50} }
    \cup { [DefaultSamplingConfig EXCEPT !.strategy = "head", !.head_count = h] :
             h \in 0..MaxHead }

\* The always-capture sets: none, or one that overlaps the never-capture set.
AlwaysSets == { {}, {PathA, PathH} }

SamplingConfigs ==
    { [c EXCEPT !.always_capture_errors = e, !.always_capture_slow = s,
                !.always_capture_endpoints = a] :
        c \in StrategyConfigs, e \in BOOLEAN, s \in BOOLEAN, a \in AlwaysSets }

\* ------------------------------------------------------- arguments of a call
SamplerPaths == {PathHx, PathA, PathB}
Methods == {"GET", "POST"}
Statuses == {None, 200, 500}
Durations == {None, 999, 1000}
SamplerBodies == { PyNone, PyDict("type" :> PyStr("A")),
                   PyDict("data" :> PyDict("type" :> PyStr("A"))) }
ChainBodies == { PyNone, PyDict("type" :> PyStr("A")) }
Queries == { PyNone, PyDict("type" :> PyStr("A")) }

\* f"{method}:{endpoint}"
EndpointKey(method, endpoint) == <<method, endpoint>>
Scopes == { EndpointKey(m, e) : m \in Methods, e \in SamplerPaths }

\* ---------------------------------------------------------- pattern hashing
\* sorted(d.keys()), for the keys that occur in the model's dicts.
KeyOrder == <<"data", "type">>
SortedKeys(d) == SelectSeq(KeyOrder, LAMBDA k : k \in DOMAIN d)

\* Sampler._create_pattern_hash: the components that are joined with "|" and
\* hashed.  Each component is held as a sequence of strings: the method, the
\* characters of the endpoint, str(sorted(keys)) as the bracketed key list,
\* the type name.  The model takes the join and the md5 prefix to be
\* one-to-one on the component lists.
CreatePatternHash(endpoint, method, request_body, query_params) ==
    LET base == << <<method>>, endpoint >>
        withBody ==
            IF request_body.k = "none" THEN base
            ELSE IF request_body.k = "dict"
                 THEN Append(base, <<"[">> \o SortedKeys(request_body.d) \o <<"]">>)
                 ELSE Append(base, <<request_body.k>>)
    IN  IF query_params.k = "dict" /\ DOMAIN query_params.d # {}
        THEN Append(withBody, <<"[">> \o SortedKeys(query_params.d) \o <<"]">>)
        ELSE withBody

\* A dict as Python holds it, with its items, <<key, value>> pairs, in
\* insertion order.
PyItems(items) == [k |-> "items", items |-> items]

\* list(d.keys()): the keys in insertion order.
DictKeys(items) == [i \in 1..Len(items) |-> items[i][1]]

\* sorted(keys), for keys that occur in KeyOrder.
KeyRank(k) == CHOOSE i \in 1..Len(KeyOrder) : KeyOrder[i] = k
RECURSIVE Sorted(_)
Sorted(keys) ==
    IF keys = << >> THEN << >>
    ELSE LET m == CHOOSE i \in 1..Len(keys) :
                      \A j \in 1..Len(keys) : KeyRank(keys[i]) <= KeyRank(keys[j])
         IN  <<keys[m]>> \o Sorted(SubSeq(keys, 1, m - 1) \o SubSeq(keys, m + 1, Len(keys)))

\* _create_pattern_hash with the keys taken as keys() gives them, unsorted.
CreatePatternHashItems_Unsorted(endpoint, method, request_body, query_params) ==
    LET base == << <<method>>, endpoint >>
        withBody ==
            IF request_body.k = "none" THEN base
            ELSE IF request_body.k = "items"
                 THEN Append(base, <<"[">> \o DictKeys(request_body.items) \o <<"]">>)
                 ELSE Append(base, <<request_body.k>>)
    IN  IF query_params.k = "items" /\ query_params.items # << >>
        THEN Append(withBody, <<"[">> \o DictKeys(query_params.items) \o <<"]">>)
        ELSE withBody

\* Sampler._create_pattern_hash on dicts held with their items in insertion
\* order: "if request_body is not None", "isinstance(request_body, dict)",
\* type(request_body).__name__, and "if query_params" (None and {} are
\* falsy).
CreatePatternHashItems(endpoint, method, request_body, query_params) ==
    LET base == << <<method>>, endpoint >>
        withBody ==
            IF request_body.k = "none" THEN base
            ELSE IF request_body.k = "items"
                 THEN Append(base, <<"[">> \o Sorted(DictKeys(request_body.items)) \o <<"]">>)
                 ELSE Append(base, <<request_body.k>>)
    IN  IF query_params.k = "items" /\ query_params.items # << >>
        THEN Append(withBody, <<"[">> \o Sorted(DictKeys(query_params.items)) \o <<"]">>)
        ELSE withBody

\* ------------------------------------------------------------------- rates
\* _adaptive_rate takes values base_rate * (1 + e/n * multiplier): the model
\* holds it as a fraction num/den of hundredths, in lowest terms.
RECURSIVE GCD(_, _)
GCD(a, b) == IF b = 0 THEN a ELSE GCD(b, a % b)
Rat(n, d) == LET g == GCD(n, d) IN
             IF g = 0 THEN [num |-> 0, den |-> 1] ELSE [num |-> n \div g, den |-> d \div g]

\* random.random() < rate
DrawBelow(u, rate) == u * rate.den < rate.num

\* ------------------------------------------------------------- thread frame
SIdleFrame ==
    [ endpoint |-> << >>, method |-> "", status_code |-> None, duration_ms |-> None,
      pattern |-> << >>, now |-> 0, ret |-> FALSE ]

\* --------------------------------------------------------- the override chain
\* should_capture, lines 150-167: the checks made before the strategy, in order.
Override_AlwaysBeforeNever(cfg, endpoint, status_code, duration_ms) ==
    IF ShouldAlwaysCaptureEndpoint(cfg, endpoint) THEN "always"
    ELSE IF ShouldSkipEndpoint(cfg, endpoint) THEN "never"
    ELSE IF cfg.always_capture_errors /\ status_code # None
            /\ status_code \in cfg.error_status_codes THEN "error"
    ELSE IF cfg.always_capture_slow /\ duration_ms # None
            /\ duration_ms >= cfg.latency_threshold_ms THEN "slow"
    ELSE "strategy"

\* The error override guarded by "duration_ms is not None".
Override_ErrorNeedsDuration(cfg, endpoint, status_code, duration_ms) ==
    IF ShouldSkipEndpoint(cfg, endpoint) THEN "never"
    ELSE IF ShouldAlwaysCaptureEndpoint(cfg, endpoint) THEN "always"
    ELSE IF cfg.always_capture_errors /\ duration_ms # None
            /\ status_code \in cfg.error_status_codes THEN "error"
    ELSE IF cfg.always_capture_slow /\ duration_ms # None
            /\ duration_ms >= cfg.latency_threshold_ms THEN "slow"
    ELSE "strategy"

\* The error override made whether or not always_capture_errors is on.
Override_ErrorsAlwaysOn(cfg, endpoint, status_code, duration_ms) ==
    IF ShouldSkipEndpoint(cfg, endpoint) THEN "never"
    ELSE IF ShouldAlwaysCaptureEndpoint(cfg, endpoint) THEN "always"
    ELSE IF status_code # None /\ status_code \in cfg.error_status_codes THEN "error"
    ELSE IF cfg.always_capture_slow /\ duration_ms # None
            /\ duration_ms >= cfg.latency_threshold_ms THEN "slow"
    ELSE "strategy"

Override(cfg, endpoint, status_code, duration_ms) ==
    IF ShouldSkipEndpoint(cfg, endpoint) THEN "never"
    ELSE IF ShouldAlwaysCaptureEndpoint(cfg, endpoint) THEN "always"
    ELSE IF cfg.always_capture_errors /\ status_code # None
            /\ status_code \in cfg.error_status_codes THEN "error"
    ELSE IF cfg.always_capture_slow /\ duration_ms # None
            /\ duration_ms >= cfg.latency_threshold_ms THEN "slow"
    ELSE "strategy"

\* should_capture, lines 170-194: where the strategy sends the call.
StrategyStep_AllSamples(cfg) ==
    CASE cfg.strategy = "all" -> "random"
      [] cfg.strategy = "random" -> "random"
      [] cfg.strategy = "clustering" -> "cluster"
      [] cfg.strategy = "adaptive" -> "record"
      [] cfg.strategy = "head" -> "head"
      [] OTHER -> "return_false"

StrategyStep(cfg) ==
    CASE cfg.strategy = "all" -> "return_true"
      [] cfg.strategy = "random" -> "random"
      [] cfg.strategy = "clustering" -> "cluster"
      [] cfg.strategy = "adaptive" -> "record"
      [] cfg.strategy = "head" -> "head"
      [] OTHER -> "return_false"

\* Sampler._sample_random
SampleRandom(cfg, u) == u < cfg.base_rate

\* --------------------------------------------------------- locked sections
\* Sampler._sample_head, the section under the lock.
SampleHead_CountInclusive(hc, endpoint_key, cfg) ==
    LET count == Get(hc, endpoint_key, 0) IN
    IF count <= cfg.head_count
    THEN [ ret |-> TRUE, head_counts |-> Put(hc, endpoint_key, count + 1) ]
    ELSE [ ret |-> FALSE, head_counts |-> hc ]

SampleHead(hc, endpoint_key, cfg) ==
    LET count == Get(hc, endpoint_key, 0) IN
    IF count < cfg.head_count
    THEN [ ret |-> TRUE, head_counts |-> Put(hc, endpoint_key, count + 1) ]
    ELSE [ ret |-> FALSE, head_counts |-> hc ]

\* Sampler._sample_clustering, the section under the lock.
SampleClustering_NoCap(sp, endpoint_key, pattern_key, cfg, u) ==
    LET seen == Get(sp, endpoint_key, {})
        sp1 == Put(sp, endpoint_key, seen)
    IN  IF pattern_key \notin seen
        THEN [ ret |-> TRUE, seen_patterns |-> Put(sp, endpoint_key, seen \cup {pattern_key}) ]
        ELSE [ ret |-> SampleRandom(cfg, u), seen_patterns |-> sp1 ]

\* The cap compared with "<=": a scope at its cap takes one more fingerprint.
SampleClustering_CapInclusive(sp, endpoint_key, pattern_key, cfg, u) ==
    LET seen == Get(sp, endpoint_key, {})
        sp1 == Put(sp, endpoint_key, seen)
    IN  IF pattern_key \notin seen
        THEN IF Cardinality(seen) <= cfg.max_patterns_per_endpoint
             THEN [ ret |-> TRUE,
                    seen_patterns |-> Put(sp, endpoint_key, seen \cup {pattern_key}) ]
             ELSE [ ret |-> SampleRandom(cfg, u), seen_patterns |-> sp1 ]
        ELSE [ ret |-> SampleRandom(cfg, u), seen_patterns |-> sp1 ]

SampleClustering(sp, endpoint_key, pattern_key, cfg, u) ==
    LET seen == Get(sp, endpoint_key, {})
        sp1 == Put(sp, endpoint_key, seen)
    IN  IF pattern_key \notin seen
        THEN IF Cardinality(seen) < cfg.max_patterns_per_endpoint
             THEN [ ret |-> TRUE,
                    seen_patterns |-> Put(sp, endpoint_key, seen \cup {pattern_key}) ]
             ELSE [ ret |-> SampleRandom(cfg, u), seen_patterns |-> sp1 ]
        ELSE [ ret |-> SampleRandom(cfg, u), seen_patterns |-> sp1 ]

\* _record_for_adaptive with the rate left uncapped (no min with adaptive_max_rate).
RecordForAdaptive_NoCap(rr, rate, cfg, tnow, is_error) ==
    LET cutoff == tnow - cfg.adaptive_window_seconds
        kept == SelectSeq(Append(rr, <<tnow, is_error>>), LAMBDA e : e[1] > cutoff)
        n == Len(kept)
        error_count == Cardinality({i \in 1..n : kept[i][2]})
    IN  [ recent_requests |-> kept,
          adaptive_rate |->
            IF n > 0
            THEN IF error_count > 0
                 THEN Rat(cfg.base_rate * (n + error_count * cfg.adaptive_error_multiplier), n)
                 ELSE Rat(cfg.base_rate, 1)
            ELSE rate ]

\* _record_for_adaptive without the pruning of the window.
RecordForAdaptive_NoPrune(rr, rate, cfg, tnow, is_error) ==
    LET kept == Append(rr, <<tnow, is_error>>)
        n == Len(kept)
        error_count == Cardinality({i \in 1..n : kept[i][2]})
    IN  [ recent_requests |-> kept,
          adaptive_rate |->
            IF n > 0
            THEN IF error_count > 0
                 THEN IF cfg.base_rate * (n + error_count * cfg.adaptive_error_multiplier)
                            <= cfg.adaptive_max_rate * n
                      THEN Rat(cfg.base_rate * (n + error_count * cfg.adaptive_error_multiplier), n)
                      ELSE Rat(cfg.adaptive_max_rate, 1)
                 ELSE Rat(cfg.base_rate, 1)
            ELSE rate ]

\* _record_for_adaptive with the error rate taken over the window as it was
\* before the pruning.
RecordForAdaptive_RateBeforePrune(rr, rate, cfg, tnow, is_error) ==
    LET cutoff == tnow - cfg.adaptive_window_seconds
        all == Append(rr, <<tnow, is_error>>)
        kept == SelectSeq(all, LAMBDA e : e[1] > cutoff)
        n == Len(all)
        error_count == Cardinality({i \in 1..n : all[i][2]})
    IN  [ recent_requests |-> kept,
          adaptive_rate |->
            IF Len(kept) > 0
            THEN IF error_count > 0
                 THEN IF cfg.base_rate * (n + error_count * cfg.adaptive_error_multiplier)
                            <= cfg.adaptive_max_rate * n
                      THEN Rat(cfg.base_rate * (n + error_count * cfg.adaptive_error_multiplier), n)
                      ELSE Rat(cfg.adaptive_max_rate, 1)
                 ELSE Rat(cfg.base_rate, 1)
            ELSE rate ]

\* Sampler._record_for_adaptive, the section under the lock; tnow is the
\* time.time() the caller read before it took the lock.
RecordForAdaptive(rr, rate, cfg, tnow, is_error) ==
    LET cutoff == tnow - cfg.adaptive_window_seconds
        kept == SelectSeq(Append(rr, <<tnow, is_error>>), LAMBDA e : e[1] > cutoff)
        n == Len(kept)
        error_count == Cardinality({i \in 1..n : kept[i][2]})
    IN  [ recent_requests |-> kept,
          adaptive_rate |->
            IF n > 0
            THEN IF error_count > 0
                 THEN IF cfg.base_rate * (n + error_count * cfg.adaptive_error_multiplier)
                            <= cfg.adaptive_max_rate * n
                      THEN Rat(cfg.base_rate * (n + error_count * cfg.adaptive_error_multiplier), n)
                      ELSE Rat(cfg.adaptive_max_rate, 1)
                 ELSE Rat(cfg.base_rate, 1)
            ELSE rate ]

\* ------------------------------------------ Sampler.should_capture, by steps
\* Where a call goes after the override chain: a return, the draw of
\* _sample_random, or one of the locked sections.  Under ADAPTIVE the error
\* override records the error first (_record_for_adaptive returns at once
\* under every other strategy).
BeginStep_SlowIsRecorded(cfg, endpoint, status_code, duration_ms) ==
    LET o == Override(cfg, endpoint, status_code, duration_ms) IN
    IF o = "never" THEN "return_false"
    ELSE IF o = "always" THEN "return_true"
    ELSE IF o \in {"error", "slow"}
         THEN IF cfg.strategy = "adaptive" THEN "record_error" ELSE "return_true"
         ELSE StrategyStep(cfg)

BeginStep(cfg, endpoint, status_code, duration_ms) ==
    LET o == Override(cfg, endpoint, status_code, duration_ms) IN
    IF o = "never" THEN "return_false"
    ELSE IF o \in {"always", "slow"} THEN "return_true"
    ELSE IF o = "error"
         THEN IF cfg.strategy = "adaptive" THEN "record_error" ELSE "return_true"
         ELSE StrategyStep(cfg)

\* The part of should_capture that takes no lock: the override chain and the
\* strategy's dispatch.  `u` is the draw of _sample_random; `tm` is what
\* time.time() returns in _record_for_adaptive, read only under ADAPTIVE.
SamplerBegin(t, endpoint, method, status_code, duration_ms, request_body, query_params, u, tm) ==
    /\ spc[t] \in {"idle", "done"}
    /\ nsamples' = nsamples + 1
    /\ LET cfg == sconfig
           step == BeginStep(cfg, endpoint, status_code, duration_ms)
           reads_time == step \in {"record", "record_error"}
           args == [SIdleFrame EXCEPT !.endpoint = endpoint, !.method = method,
                                      !.status_code = status_code,
                                      !.duration_ms = duration_ms]
       IN  /\ tm >= now
           /\ reads_time \/ tm = now
           /\ now' = tm
           /\ step \in {"random"} \/ u = 0
           /\ spc' = [spc EXCEPT ![t] =
                        IF step \in {"return_true", "return_false", "random"} THEN "done" ELSE step]
           /\ sframe' = [sframe EXCEPT ![t] =
                 CASE step = "return_true" -> [args EXCEPT !.ret = TRUE]
                   [] step = "return_false" -> args
                   [] step = "random" -> [args EXCEPT !.ret = SampleRandom(cfg, u)]
                   [] step = "cluster" ->
                        [args EXCEPT !.pattern = CreatePatternHash(endpoint, method,
                                                                   request_body, query_params)]
                   [] OTHER -> [args EXCEPT !.now = tm]]
    /\ UNCHANGED <<samVars, decided>>

\* _record_for_adaptive under the lock, for the error override (then "return
\* True") and for the ADAPTIVE strategy (then _sample_adaptive).
SamplerRecord(t) ==
    /\ spc[t] \in {"record", "record_error"}
    /\ LET r == RecordForAdaptive(recent_requests, adaptive_rate, sconfig,
                                  sframe[t].now, spc[t] = "record_error")
       IN  /\ recent_requests' = r.recent_requests
           /\ adaptive_rate' = r.adaptive_rate
    /\ spc' = [spc EXCEPT ![t] = IF spc[t] = "record_error" THEN "done" ELSE "sample_adaptive"]
    /\ sframe' = [sframe EXCEPT ![t].ret = (spc[t] = "record_error"), ![t].now = 0]
    /\ UNCHANGED <<sconfig, seen_patterns, head_counts, now, decided, nsamples>>

\* Sampler._sample_adaptive: _adaptive_rate is read without the lock.
SamplerSampleAdaptive(t, u) ==
    /\ spc[t] = "sample_adaptive"
    /\ spc' = [spc EXCEPT ![t] = "done"]
    /\ sframe' = [sframe EXCEPT ![t].ret = DrawBelow(u, adaptive_rate)]
    /\ UNCHANGED <<samVars, now, decided, nsamples>>

\* Sampler._sample_clustering under the lock.
SamplerCluster(t, u) ==
    /\ spc[t] = "cluster"
    /\ LET f == sframe[t]
           key == EndpointKey(f.method, f.endpoint)
           r == SampleClustering(seen_patterns, key, f.pattern, sconfig, u)
       IN  /\ seen_patterns' = r.seen_patterns
           /\ sframe' = [sframe EXCEPT ![t].ret = r.ret, ![t].pattern = << >>]
           /\ decided' = [decided EXCEPT ![key] =
                            Append(@, [pattern |-> f.pattern, ret |-> r.ret])]
    /\ spc' = [spc EXCEPT ![t] = "done"]
    /\ UNCHANGED <<sconfig, head_counts, recent_requests, adaptive_rate, now, nsamples>>

\* Sampler._sample_head under the lock.
SamplerHead(t) ==
    /\ spc[t] = "head"
    /\ LET f == sframe[t]
           key == EndpointKey(f.method, f.endpoint)
           r == SampleHead(head_counts, key, sconfig)
       IN  /\ head_counts' = r.head_counts
           /\ sframe' = [sframe EXCEPT ![t].ret = r.ret]
           /\ decided' = [decided EXCEPT ![key] =
                            Append(@, [pattern |-> << >>, ret |-> r.ret])]
    /\ spc' = [spc EXCEPT ![t] = "done"]
    /\ UNCHANGED <<sconfig, seen_patterns, recent_requests, adaptive_rate, now, nsamples>>

\* Sampler.reset
SamplerReset ==
    /\ seen_patterns' = EmptyDict
    /\ head_counts' = EmptyDict
    /\ recent_requests' = << >>
    /\ adaptive_rate' = Rat(sconfig.base_rate, 1)
    /\ decided' = [s \in Scopes |-> << >>]
    /\ UNCHANGED <<sconfig, now, spc, sframe, nsamples>>

\* Sampler.__init__(config)
SamplerInit(cfg) ==
    /\ sconfig = cfg
    /\ seen_patterns = EmptyDict
    /\ head_counts = EmptyDict
    /\ recent_requests = << >>
    /\ adaptive_rate = Rat(cfg.base_rate, 1)
    /\ now = 0
    /\ spc = [t \in Threads |-> "idle"]
    /\ sframe = [t \in Threads |-> SIdleFrame]
    /\ decided = [s \in Scopes |-> << >>]
    /\ nsamples = 0

\* configure_sampling(cfg): the global sampler becomes a new Sampler(cfg),
\* whose seen patterns, head counters and window are empty.  Taken while no
\* should_capture call is inside the sampler (a call in progress stays on the
\* instance it was made on).
ConfigureSampling(cfg) ==
    /\ \A t \in Threads : spc[t] \in {"idle", "done"}
    /\ sconfig' = cfg
    /\ seen_patterns' = EmptyDict
    /\ head_counts' = EmptyDict
    /\ recent_requests' = << >>
    /\ adaptive_rate' = Rat(cfg.base_rate, 1)
    /\ decided' = [s \in Scopes |-> << >>]
    /\ UNCHANGED <<now, spc, sframe, nsamples>>

\* The dashboard's update_sampling: a SamplingConfig built from seven fields,
\* each taken from the body or, failing that, from the current config (the
\* other fields get their defaults), handed to configure_sampling.
\* SamplingStrategy(strategy_str) raises ValueError for a string that names
\* no strategy, before anything is changed; no other field is looked at.
UpdateSampling(data) ==
    /\ FieldOr(data, "strategy", sconfig.strategy) \in Strategies
    /\ ConfigureSampling(
        [DefaultSamplingConfig EXCEPT
            !.strategy = FieldOr(data, "strategy", sconfig.strategy),
            !.base_rate = FieldOr(data, "base_rate", sconfig.base_rate),
            !.always_capture_errors =
                FieldOr(data, "always_capture_errors", sconfig.always_capture_errors),
            !.always_capture_slow =
                FieldOr(data, "always_capture_slow", sconfig.always_capture_slow),
            !.latency_threshold_ms =
                FieldOr(data, "latency_threshold_ms", sconfig.latency_threshold_ms),
            !.head_count = FieldOr(data, "head_count", sconfig.head_count),
            !.max_patterns_per_endpoint =
                FieldOr(data, "max_patterns_per_endpoint", sconfig.max_patterns_per_endpoint)])

\* =============================================================== pipeline
\* str.rstrip("/")
RECURSIVE RStrip(_)
RStrip(s) == IF s # << >> /\ s[Len(s)] = "/" THEN RStrip(SubSeq(s, 1, Len(s) - 1)) ELSE s

\* dispatch, lines 457-465: the test made on each entry of never_capture_endpoints.
DispatchExcluded(cfg, path) ==
    \E excluded \in cfg.never_capture_endpoints :
        LET excluded_lower == RStrip(LowerStr(excluded))
            path_lower == LowerStr(path)
        IN  \/ RStrip(path_lower) = excluded_lower
            \/ StartsWith(path_lower, excluded_lower \o <<"/">>)

DIdleFrame ==
    [ path |-> << >>, method |-> "", request_body |-> PyNone, query_params |-> PyNone,
      status_code |-> None, duration_ms |-> None, processed |-> FALSE, stored |-> FALSE ]

\* One CapturedRequest, by the fields the model reads back.
CapturedRequest(f) == [ path |-> f.path, status_code |-> f.status_code ]

\* _store_captured_request trimming with [:_max_stored_requests].
StoreCapturedRequest_KeepsOldest(stored, captured) ==
    LET all == Append(stored, captured) IN
    IF Len(all) > MaxStored THEN SubSeq(all, 1, MaxStored) ELSE all

\* _store_captured_request: append, then keep the last _max_stored_requests.
StoreCapturedRequest(stored, captured) ==
    LET all == Append(stored, captured) IN
    IF Len(all) > MaxStored THEN SubSeq(all, Len(all) - MaxStored + 1, Len(all)) ELSE all

\* dispatch up to call_next: a request under "/_chronicle" or on an excluded
\* path is passed on with no capture processing.
DispatchBegin(t, path, method, request_body, query_params) ==
    /\ dpc[t] \in {"idle", "finished"}
    /\ nrequests < MaxSerial
    /\ nrequests' = nrequests + 1
    /\ IF StartsWith(LowerStr(path), DashboardPrefix) \/ DispatchExcluded(sconfig, path)
       THEN /\ dpc' = [dpc EXCEPT ![t] = "finished"]
            /\ dframe' = [dframe EXCEPT ![t] = [DIdleFrame EXCEPT !.path = path]]
       ELSE /\ dpc' = [dpc EXCEPT ![t] = "call_next"]
            /\ dframe' = [dframe EXCEPT ![t] =
                            [DIdleFrame EXCEPT !.path = path, !.method = method,
                                               !.request_body = request_body,
                                               !.query_params = query_params,
                                               !.processed = TRUE]]
    /\ UNCHANGED captured_requests

\* call_next has returned a response (status_code set) or raised (status_code
\* stays None); the finally block measures the duration and calls
\* sampler.should_capture.
DispatchSample(t, status_code, duration_ms, u, tm) ==
    /\ dpc[t] = "call_next"
    /\ LET f == dframe[t] IN
       SamplerBegin(t, f.path, f.method, status_code, duration_ms,
                    f.request_body, f.query_params, u, tm)
    /\ dpc' = [dpc EXCEPT ![t] = "sampling"]
    /\ dframe' = [dframe EXCEPT ![t].status_code = status_code,
                                ![t].duration_ms = duration_ms]
    /\ UNCHANGED <<captured_requests, nrequests>>

\* The type limiter consulted whatever the sampler returned.
DispatchSampled_LimiterAlways(t) ==
    /\ dpc[t] = "sampling"
    /\ spc[t] = "done"
    /\ dpc' = [dpc EXCEPT ![t] = IF enabled THEN "limit"
                                 ELSE IF sframe[t].ret THEN "store" ELSE "finished"]
    /\ dframe' = dframe
    /\ UNCHANGED <<captured_requests, nrequests>>

\* "if should_capture: ... if type_limiter and type_limiter._enabled", lines 521-523.
DispatchSampled(t) ==
    /\ dpc[t] = "sampling"
    /\ spc[t] = "done"
    /\ IF ~sframe[t].ret
       THEN /\ dpc' = [dpc EXCEPT ![t] = "finished"]
            /\ dframe' = [dframe EXCEPT ![t].request_body = PyNone, ![t].query_params = PyNone]
       ELSE /\ dpc' = [dpc EXCEPT ![t] = IF enabled THEN "limit" ELSE "store"]
            /\ dframe' = dframe
    /\ UNCHANGED <<captured_requests, nrequests>>

\* type_limiter.should_capture(path, request_body), line 524: the call.
DispatchLimit(t) ==
    /\ dpc[t] = "limit"
    /\ TypeShouldCaptureBegin(t, dframe[t].path, dframe[t].request_body)
    /\ dpc' = [dpc EXCEPT ![t] = "limiting"]
    /\ UNCHANGED <<captured_requests, dframe, nrequests>>

\* "if not type_allowed: should_capture = False", lines 525-528; a KeyError
\* raised by get_config leaves the finally block with nothing stored.
DispatchLimited(t) ==
    /\ dpc[t] = "limiting"
    /\ lpc[t] \in {"done", "raised"}
    /\ IF lpc[t] = "done" /\ lframe[t].allowed
       THEN /\ dpc' = [dpc EXCEPT ![t] = "store"]
            /\ dframe' = dframe
       ELSE /\ dpc' = [dpc EXCEPT ![t] = "finished"]
            /\ dframe' = [dframe EXCEPT ![t].request_body = PyNone, ![t].query_params = PyNone]
    /\ UNCHANGED <<captured_requests, nrequests>>

\* "if should_capture:", lines 530-587: build the record and store it.
DispatchStore(t) ==
    /\ dpc[t] = "store"
    /\ captured_requests' = StoreCapturedRequest(captured_requests, CapturedRequest(dframe[t]))
    /\ dpc' = [dpc EXCEPT ![t] = "finished"]
    /\ dframe' = [dframe EXCEPT ![t].stored = TRUE, ![t].request_body = PyNone,
                                ![t].query_params = PyNone]
    /\ UNCHANGED nrequests

\* clear_captured_requests
ClearCapturedRequests ==
    /\ captured_requests' = << >>
    /\ UNCHANGED <<dpc, dframe, nrequests>>

\* _store_captured_request(captured), called on its own; the log keeps the
\* records handed to it since the list was last empty, in calling order.
StoreCall(captured) ==
    /\ nrequests < MaxStores
    /\ nrequests' = nrequests + 1
    /\ captured_requests' = StoreCapturedRequest(captured_requests, captured)
    /\ last_op' = [ op |-> "store", ret |-> None,
                    log |-> Append(IF last_op.op = "store" THEN last_op.log ELSE << >>, captured) ]
    /\ UNCHANGED <<dpc, dframe>>

\* clear_captured_requests(), with the count it returns and the list it found.
ClearCall ==
    /\ ClearCapturedRequests
    /\ last_op' = [ op |-> "clear", ret |-> Len(captured_requests), log |-> captured_requests ]

\* The module state of fastapi.py at import, with no request in flight.
PipelineInit ==
    /\ captured_requests = << >>
    /\ dpc = [t \in Threads |-> "idle"]
    /\ dframe = [t \in Threads |-> DIdleFrame]
    /\ nrequests = 0

\* ============================================================ task database
\* demo/database.py: TaskDatabase over one tasks table.  Each SQL statement
\* is one step (the database runs a statement atomically and every method
\* commits after its statement); a method made of several statements is
\* several steps, and other workers' statements may come between them.
\* The columns title, description, payload and updated_at are left out.
Priorities == {"critical", "high", "medium", "low"}

\* Optional[TaskPriority] None: claim_next_task without a priority filter.
NoPriority == "<None>"

\* The CASE of claim_next_task's ORDER BY.
PriorityRank(p) ==
    CASE p = "critical" -> 0
      [] p = "high" -> 1
      [] p = "medium" -> 2
      [] p = "low" -> 3

DefaultMaxRetries == 3

TaskIds == 1..MaxTasks

\* Task(...) as create_task constructs it, and the row its INSERT writes.
NewTask(priority, max_retries, tm) ==
    [ status |-> "pending", priority |-> priority, result |-> None, error_message |-> None,
      created_at |-> tm, claimed_at |-> None, completed_at |-> None, claimed_by |-> None,
      retry_count |-> 0, max_retries |-> max_retries ]

\* _row_to_task: "row_dict.get("retry_count") or 0" and
\* "row_dict.get("max_retries") or 3" (a column holding 0 or NULL is falsy).
RowToTask(row) ==
    [ row EXCEPT !.retry_count = IF @ \in {None, 0} THEN 0 ELSE @,
                 !.max_retries = IF @ \in {None, 0} THEN DefaultMaxRetries ELSE @ ]

\* get_task: the Task read, as the one-element sequence, or None as << >>.
GetTask(tbl, id) == IF id \in DOMAIN tbl THEN << RowToTask(tbl[id]) >> ELSE << >>

\* The UPDATE without its status condition.
GuardedUpdate_AnyStatus(tbl, id, from, change) ==
    IF id \in DOMAIN tbl
    THEN [ tasks |-> Put(tbl, id, change), rowcount |-> 1 ]
    ELSE [ tasks |-> tbl, rowcount |-> 0 ]

\* UPDATE tasks SET ... WHERE id = ? AND status = ?: the rows changed by
\* `change` if the task is there in status `from`, and the statement's rowcount.
GuardedUpdate(tbl, id, from, change) ==
    IF id \in DOMAIN tbl /\ tbl[id].status = from
    THEN [ tasks |-> Put(tbl, id, change), rowcount |-> 1 ]
    ELSE [ tasks |-> tbl, rowcount |-> 0 ]

\* claim_task's UPDATE without "AND status = 'pending'".
ClaimUpdate_NoStatusGuard(tbl, id, worker_id, tm) ==
    GuardedUpdate_AnyStatus(tbl, id, "pending",
        [tbl[id] EXCEPT !.status = "claimed", !.claimed_at = tm, !.claimed_by = worker_id])

\* claim_task's UPDATE.
ClaimUpdate(tbl, id, worker_id, tm) ==
    GuardedUpdate(tbl, id, "pending",
        [tbl[id] EXCEPT !.status = "claimed", !.claimed_at = tm, !.claimed_by = worker_id])

\* claim_next_task's SELECT ... ORDER BY CASE priority ..., created_at ASC
\* LIMIT 1: the ids the statement may return (rows that tie in both sort keys
\* come in either order), none if no row matches.
SelectNext_OldestFirst(tbl, priority) ==
    LET match == { i \in DOMAIN tbl :
                     /\ tbl[i].status = "pending"
                     /\ priority # NoPriority => tbl[i].priority = priority }
    IN  { i \in match : \A j \in match : tbl[i].created_at <= tbl[j].created_at }

SelectNext(tbl, priority) ==
    LET match == { i \in DOMAIN tbl :
                     /\ tbl[i].status = "pending"
                     /\ priority # NoPriority => tbl[i].priority = priority }
        Before(i, j) ==
            \/ PriorityRank(tbl[i].priority) < PriorityRank(tbl[j].priority)
            \/ /\ tbl[i].priority = tbl[j].priority
               /\ tbl[i].created_at <= tbl[j].created_at
    IN  { i \in match : \A j \in match : Before(i, j) }

\* fail_task's decision on the Task it read: retry or give up.
FailDecision(task) ==
    IF task.retry_count < task.max_retries
    THEN [ status |-> "pending", retry_count |-> task.retry_count + 1 ]
    ELSE [ status |-> "failed", retry_count |-> task.retry_count ]

\* A worker thread that is inside no method.
WIdleFrame ==
    [ op |-> "none", id |-> None, arg |-> None, rowcount |-> None,
      decision |-> [status |-> "none", retry_count |-> 0], ret |-> << >> ]

\* What was asked when the task was created and what has been done since:
\* the max_retries asked, the fail_task UPDATEs applied, and the workers whose
\* claim UPDATE changed the row since fail_task last made it pending.
NewHist(max_retries) == [ max_retries |-> max_retries, failures |-> 0, claimants |-> {} ]

\* A method is started by worker thread w.
Start(w, op, id, arg) ==
    /\ wpc[w] \in {"idle", "done"}
    /\ nops < MaxOps
    /\ nops' = nops + 1
    /\ wframe' = [wframe EXCEPT ![w] = [WIdleFrame EXCEPT !.op = op, !.id = id, !.arg = arg]]

\* create_task(TaskCreate(priority, max_retries)): the INSERT; the Task
\* returned is the one constructed, not one read back.  A create_task reads
\* a later time than every method before it (utcnow() has microseconds), so
\* tasks are ordered by created_at as they were created.
CreateTask(w, priority, max_retries, tm) ==
    /\ wpc[w] \in {"idle", "done"}
    /\ nops < MaxOps
    /\ ncreated < MaxTasks
    /\ tm > utcnow
    /\ LET id == ncreated + 1
           task == NewTask(priority, max_retries, tm) IN
       /\ tasks' = Put(tasks, id, task)
       /\ hist' = Put(hist, id, NewHist(max_retries))
       /\ wframe' = [wframe EXCEPT ![w] = [WIdleFrame EXCEPT !.op = "create_task", !.id = id,
                                                                 !.ret = <<task>>]]
    /\ ncreated' = ncreated + 1
    /\ nops' = nops + 1
    /\ utcnow' = tm
    /\ wpc' = [wpc EXCEPT ![w] = "done"]

\* get_task(task_id).
GetTaskCall(w, id) ==
    /\ Start(w, "get_task", id, None)
    /\ wpc' = [wpc EXCEPT ![w] = "read"]
    /\ UNCHANGED <<tasks, utcnow, ncreated, hist>>

\* The UPDATE of claim_task, start_processing or complete_task, made by
\* thread w with the result r; "if cursor.rowcount == 0: return None",
\* otherwise on to the closing get_task.
AfterUpdate(w, r) ==
    /\ tasks' = r.tasks
    /\ wpc' = [wpc EXCEPT ![w] = IF r.rowcount = 0 THEN "done" ELSE "read"]

\* The claim UPDATE as the observation log sees it.
ClaimLogged(id, worker_id, r) ==
    hist' = IF r.rowcount = 0 THEN hist
            ELSE [hist EXCEPT ![id].claimants = @ \cup {worker_id}]

\* claim_task(task_id, worker_id).
ClaimTask(w, id, worker_id, tm) ==
    LET r == ClaimUpdate(tasks, id, worker_id, tm) IN
    /\ Start(w, "claim_task", id, worker_id)
    /\ AfterUpdate(w, r)
    /\ ClaimLogged(id, worker_id, r)
    /\ utcnow' = tm
    /\ UNCHANGED ncreated

\* claim_next_task(worker_id, priority): the SELECT.
ClaimNextSelect(w, worker_id, priority) ==
    /\ wpc[w] \in {"idle", "done"}
    /\ nops < MaxOps
    /\ nops' = nops + 1
    /\ \/ /\ SelectNext(tasks, priority) = {}
          /\ wframe' = [wframe EXCEPT ![w] = [WIdleFrame EXCEPT !.op = "claim_next_task",
                                                  !.arg = <<worker_id, priority>>]]
          /\ wpc' = [wpc EXCEPT ![w] = "done"]
       \/ \E id \in SelectNext(tasks, priority) :
             /\ wframe' = [wframe EXCEPT ![w] = [WIdleFrame EXCEPT !.op = "claim_next_task",
                                                     !.id = id, !.arg = <<worker_id, priority>>]]
             /\ wpc' = [wpc EXCEPT ![w] = "claim"]
    /\ UNCHANGED <<tasks, utcnow, ncreated, hist>>

\* claim_next_task: "return self.claim_task(task_id, worker_id)", its UPDATE.
ClaimNextClaim(w, tm) ==
    LET f == wframe[w]
        r == ClaimUpdate(tasks, f.id, f.arg[1], tm) IN
    /\ wpc[w] = "claim"
    /\ AfterUpdate(w, r)
    /\ ClaimLogged(f.id, f.arg[1], r)
    /\ utcnow' = tm
    /\ UNCHANGED <<ncreated, wframe, nops>>

\* start_processing(task_id).
StartProcessing(w, id, tm) ==
    /\ Start(w, "start_processing", id, None)
    /\ AfterUpdate(w, GuardedUpdate(tasks, id, "claimed", [tasks[id] EXCEPT !.status = "processing"]))
    /\ utcnow' = tm
    /\ UNCHANGED <<ncreated, hist>>

\* complete_task(task_id, result); result is None or a dict.
CompleteTask(w, id, result, tm) ==
    /\ Start(w, "complete_task", id, result)
    /\ AfterUpdate(w, GuardedUpdate(tasks, id, "processing",
                          [tasks[id] EXCEPT !.status = "completed", !.result = result,
                                            !.completed_at = tm]))
    /\ utcnow' = tm
    /\ UNCHANGED <<ncreated, hist>>

\* fail_task(task_id, error_message): the opening get_task and the decision.
FailTaskRead(w, id) ==
    /\ wpc[w] \in {"idle", "done"}
    /\ nops < MaxOps
    /\ nops' = nops + 1
    /\ LET task == GetTask(tasks, id) IN
       /\ wframe' = [wframe EXCEPT ![w] =
              [WIdleFrame EXCEPT !.op = "fail_task", !.id = id,
                                 !.decision = IF task = << >> THEN @ ELSE FailDecision(task[1])]]
       /\ wpc' = [wpc EXCEPT ![w] = IF task = << >> THEN "done" ELSE "fail_update"]
    /\ UNCHANGED <<tasks, utcnow, ncreated, hist>>

\* fail_task's UPDATE without "claimed_at = NULL, claimed_by = NULL".
FailTaskUpdate_KeepsClaim(w, tm) ==
    LET f == wframe[w] IN
    /\ wpc[w] = "fail_update"
    /\ IF f.id \in DOMAIN tasks
       THEN /\ tasks' = [tasks EXCEPT ![f.id].status = f.decision.status,
                                      ![f.id].error_message = 1,
                                      ![f.id].retry_count = f.decision.retry_count]
            /\ hist' = [hist EXCEPT ![f.id].failures = @ + 1,
                                    ![f.id].claimants =
                                        IF f.decision.status = "pending" THEN {} ELSE @]
       ELSE UNCHANGED <<tasks, hist>>
    /\ wpc' = [wpc EXCEPT ![w] = "read"]
    /\ utcnow' = tm
    /\ UNCHANGED <<ncreated, wframe, nops>>

\* fail_task: the UPDATE ... WHERE id = ?, whatever the task's status is now.
FailTaskUpdate(w, tm) ==
    LET f == wframe[w] IN
    /\ wpc[w] = "fail_update"
    /\ IF f.id \in DOMAIN tasks
       THEN /\ tasks' = [tasks EXCEPT ![f.id].status = f.decision.status,
                                      ![f.id].error_message = 1,
                                      ![f.id].retry_count = f.decision.retry_count,
                                      ![f.id].claimed_at = None,
                                      ![f.id].claimed_by = None]
            /\ hist' = [hist EXCEPT ![f.id].failures = @ + 1,
                                    ![f.id].claimants =
                                        IF f.decision.status = "pending" THEN {} ELSE @]
       ELSE UNCHANGED <<tasks, hist>>
    /\ wpc' = [wpc EXCEPT ![w] = "read"]
    /\ utcnow' = tm
    /\ UNCHANGED <<ncreated, wframe, nops>>

\* The closing "return self.get_task(task_id)" of a method.
ReturnGetTask(w) ==
    /\ wpc[w] = "read"
    /\ wframe' = [wframe EXCEPT ![w].ret = GetTask(tasks, wframe[w].id)]
    /\ wpc' = [wpc EXCEPT ![w] = "done"]
    /\ UNCHANGED <<tasks, utcnow, ncreated, hist, nops>>

\* TaskDatabase(): an empty table, no worker inside a method.
TaskDatabaseInit ==
    /\ tasks = EmptyDict
    /\ utcnow = 0
    /\ ncreated = 0
    /\ wpc = [w \in Threads |-> "idle"]
    /\ wframe = [w \in Threads |-> WIdleFrame]
    /\ hist = EmptyDict
    /\ nops = 0

\* ----------------------------------------------------------------- locks
\* The methods whose body is one "with self._lock:" block, and the
\* attributes the block names.
LimiterMethods == {"get_stats", "get_alerts", "clear_alerts", "reset", "reset_all"}
SamplerMethods == {"get_stats", "reset"}
Touched(c, method) ==
    IF c = "limiter"
    THEN CASE method = "get_stats" ->
                 {"_enabled", "config", "_endpoints", "counts", "stopped", "alerts"}
           [] method = "get_alerts" -> {"alerts"}
           [] method = "clear_alerts" -> {"alerts"}
           [] method = "reset" -> {"counts", "stopped"}
           [] method = "reset_all" -> {"counts", "stopped", "alerts"}
    ELSE CASE method = "get_stats" ->
                 {"config", "_adaptive_rate", "_seen_patterns", "_head_counts",
                  "_recent_requests"}
           [] method = "reset" ->
                 {"config", "_adaptive_rate", "_seen_patterns", "_head_counts",
                  "_recent_requests"}

\* The thread is inside no method of the limiter or of the sampler.
Outside(t) ==
    /\ lpc[t] \in {"idle", "done", "raised"}
    /\ spc[t] \in {"idle", "done"}
    /\ \A c \in Components : lock[c].inside[t] = "none"

\* The thread stands at a "with self._lock:" of the component, or inside it.
AtLock(c, t) ==
    \/ lock[c].inside[t] # "none"
    \/ c = "limiter" /\ lpc[t] = "lock"
    \/ c = "sampler" /\ spc[t] \in {"record", "record_error", "cluster", "head"}

\* The observation log of a step: the method it belongs to, the attributes
\* of the component the step names, and whether its thread holds the
\* component's lock while it does.
Access(c, t, method, touched) ==
    last_op' = [ op |-> method, component |-> c,
                 held |-> lock[c].holder = t, touched |-> touched ]

\* A step of should_capture outside the lock.
OutsideLock(c, t, touched) ==
    /\ Access(c, t, "should_capture", touched)
    /\ UNCHANGED lock

\* A call of one of the methods, up to its "with self._lock:".
Enter(c, t, method) ==
    /\ Outside(t)
    /\ lock' = [lock EXCEPT ![c].inside[t] = method]
    /\ Access(c, t, method, {})
    /\ UNCHANGED <<limiterVars, samplerVars>>

\* "with self._lock:" on entry: Lock.acquire(), which waits while another
\* thread holds the lock.
Acquire(c, t) ==
    /\ AtLock(c, t)
    /\ lock[c].holder = 0
    /\ lock' = [lock EXCEPT ![c].holder = t]
    /\ Access(c, t, "acquire", {})
    /\ UNCHANGED <<limiterVars, samplerVars>>

\* A "with self._lock:" that leaves the lock held when the block returns.
Release_NotOnReturn(c, t) ==
    lock' = [lock EXCEPT ![c].inside[t] = "none"]

\* "with self._lock:" on exit, by return or by exception: Lock.release().
Release(c, t) ==
    lock' = [lock EXCEPT ![c].holder = 0, ![c].inside[t] = "none"]

\* should_capture of a limiter with the block entered without the lock.
LimiterLocked_WithoutLock(t, u) ==
    /\ ShouldCaptureLocked(t, u)
    /\ Release("limiter", t)
    /\ Access("limiter", t, "should_capture", {"counts", "stopped", "alerts"})

\* should_capture of a limiter: the block under the lock, and the release.
LimiterLocked(t, u) ==
    /\ lock["limiter"].holder = t
    /\ ShouldCaptureLocked(t, u)
    /\ Release("limiter", t)
    /\ Access("limiter", t, "should_capture", {"counts", "stopped", "alerts"})

\* get_stats, get_alerts, clear_alerts, reset_type / reset_function and
\* reset_all of a limiter: the block under the lock, and the release.
LimiterMethod(t, method, key, limit) ==
    /\ lock["limiter"].holder = t
    /\ lock["limiter"].inside[t] = method
    /\ CASE method = "get_stats" -> UNCHANGED <<limVars, thrVars, obsVars>>
         [] method = "get_alerts" -> GetAlertsCall(limit)
         [] method = "clear_alerts" -> ClearAlerts
         [] method = "reset" -> ResetKey(key)
         [] method = "reset_all" -> ResetAll
    /\ Release("limiter", t)
    /\ Access("limiter", t, method, Touched("limiter", method))

\* Sampler.should_capture: _record_for_adaptive, _sample_clustering or
\* _sample_head under the lock, and the release.
SamplerLocked(t, u) ==
    /\ lock["sampler"].holder = t
    /\ \/ /\ SamplerRecord(t)
          /\ u = 0
          /\ Access("sampler", t, "should_capture",
                    {"config", "_recent_requests", "_adaptive_rate"})
       \/ /\ SamplerCluster(t, u)
          /\ Access("sampler", t, "should_capture", {"config", "_seen_patterns"})
       \/ /\ SamplerHead(t)
          /\ u = 0
          /\ Access("sampler", t, "should_capture", {"config", "_head_counts"})
    /\ Release("sampler", t)

\* Sampler.get_stats and Sampler.reset: the block under the lock, and the
\* release.
SamplerMethod(t, method) ==
    /\ lock["sampler"].holder = t
    /\ lock["sampler"].inside[t] = method
    /\ CASE method = "get_stats" -> UNCHANGED samplerVars
         [] method = "reset" -> SamplerReset
    /\ Release("sampler", t)
    /\ Access("sampler", t, method, Touched("sampler", method))

\* -------------------------------------------------------- specifications
\* The configuration a limiter constructed without one starts from (the
\* source's default limit of 5000 is held at the bound MaxLimit).
DefaultConfig(k) ==
    [ field_path |-> IF k = "type" THEN <<"type">> ELSE << >>,
      limit |-> MaxLimit,
      alert_on_limit |-> TRUE,
      limit_action |-> "stop",
      overflow_sample_rate |-> DefaultOverflowRate ]

\* TypeLimiter() / FunctionLimiter(): a limiter as constructed, not enabled.
LimiterInit(k) ==
    /\ kind = k
    /\ enabled = FALSE
    /\ config = DefaultConfig(k)
    /\ endpoints = EmptyDict
    /\ counts = EmptyDict
    /\ stopped = {}
    /\ alerts = << >>
    /\ lpc = [t \in Threads |-> "idle"]
    /\ lframe = [t \in Threads |-> IdleFrame]
    /\ returned = [k2 \in Keys |-> << >>]
    /\ alerted = [k2 \in Keys |-> 0]
    /\ ncalls = 0
    /\ last_op = NoOp
    /\ upd = NoUpdate
    /\ lock = [c \in Components |-> Unlocked]

\* configure_type_limits(cfg) / configure_function_limits(cfg): a limiter
\* constructed with cfg, then enabled.
LimiterConfigured(k, cfg) ==
    /\ kind = k
    /\ enabled = TRUE
    /\ config = cfg
    /\ endpoints = EmptyDict
    /\ counts = EmptyDict
    /\ stopped = {}
    /\ alerts = << >>
    /\ lpc = [t \in Threads |-> "idle"]
    /\ lframe = [t \in Threads |-> IdleFrame]
    /\ returned = [k2 \in Keys |-> << >>]
    /\ alerted = [k2 \in Keys |-> 0]
    /\ ncalls = 0
    /\ last_op = NoOp
    /\ upd = NoUpdate
    /\ lock = [c \in Components |-> Unlocked]

\* A limiter as configure_type_limits(cfg) / configure_function_limits(cfg)
\* leaves it: constructed with cfg, then enabled.
InitQuota ==
    /\ \E k \in {"type", "function"} : \E c \in ConfigsOf(k) : LimiterConfigured(k, c)
    /\ SamplerInit(DefaultSamplingConfig)
    /\ PipelineInit
    /\ TaskDatabaseInit

\* The request bodies fed to a limiter whose configuration stays fixed: two
\* type values and a body with no type.
QuotaBodies == { PyDict("type" :> PyStr("A")), PyDict("type" :> PyStr("B")), PyNone }

NextQuota ==
    \/ \E t \in Threads, b \in QuotaBodies : TypeShouldCaptureBegin(t, PathA, b) /\ UNCHANGED <<lockVars, samplerVars, pipelineVars, opVars, updVars, taskVars>>
    \/ \E t \in Threads, fn \in Keys : FunctionShouldCaptureBegin(t, fn) /\ UNCHANGED <<lockVars, samplerVars, pipelineVars, opVars, updVars, taskVars>>
    \/ \E t \in Threads : GetConfigTest(t) /\ UNCHANGED <<lockVars, samplerVars, pipelineVars, opVars, updVars, taskVars>>
    \/ \E t \in Threads : GetConfigDefault(t) /\ UNCHANGED <<lockVars, samplerVars, pipelineVars, opVars, updVars, taskVars>>
    \/ \E t \in Threads, u \in Draws : ShouldCaptureLocked(t, u) /\ UNCHANGED <<lockVars, samplerVars, pipelineVars, opVars, updVars, taskVars>>
    \/ \E k \in Keys : ResetKey(k) /\ UNCHANGED <<lockVars, samplerVars, pipelineVars, opVars, updVars, taskVars>>
    \/ ResetAll /\ UNCHANGED <<lockVars, samplerVars, pipelineVars, opVars, updVars, taskVars>>
    \/ ClearAlerts /\ UNCHANGED <<lockVars, samplerVars, pipelineVars, opVars, updVars, taskVars>>

\* The limiter under a configuration that stays as configured.
SpecQuota == InitQuota /\ [][NextQuota]_vars

\* The configurations the dashboard and the host application set later: a
\* lower limit that stops, one that samples the overflow, and a limit of 0
\* without alerts.
ReConfigs(k) ==
    { [DefaultConfig(k) EXCEPT !.limit = 1],
      [DefaultConfig(k) EXCEPT !.limit = 1, !.limit_action = "sample"],
      [DefaultConfig(k) EXCEPT !.limit = 0, !.alert_on_limit = FALSE] }

\* The configurations set for one scope (endpoint / function).
ScopeConfigs(k) ==
    { [DefaultConfig(k) EXCEPT !.limit = 1],
      [DefaultConfig(k) EXCEPT !.field_path = IF k = "type" THEN <<"data", "type">> ELSE << >>,
                               !.limit_action = "sample"] }

InitLimiter ==
    /\ \E k \in {"type", "function"} : LimiterInit(k)
    /\ SamplerInit(DefaultSamplingConfig)
    /\ PipelineInit
    /\ TaskDatabaseInit

NextLimiter ==
    \/ \E t \in {1}, e \in LimiterEndpoints, b \in Bodies : TypeShouldCaptureBegin(t, e, b) /\ UNCHANGED <<lockVars, samplerVars, pipelineVars, opVars, updVars, taskVars>>
    \/ \E t \in {1}, fn \in Keys : FunctionShouldCaptureBegin(t, fn) /\ UNCHANGED <<lockVars, samplerVars, pipelineVars, opVars, updVars, taskVars>>
    \/ \E t \in {1} : GetConfigTest(t) /\ UNCHANGED <<lockVars, samplerVars, pipelineVars, opVars, updVars, taskVars>>
    \/ \E t \in {1} : GetConfigOverride(t) /\ UNCHANGED <<lockVars, samplerVars, pipelineVars, opVars, updVars, taskVars>>
    \/ \E t \in {1} : GetConfigDefault(t) /\ UNCHANGED <<lockVars, samplerVars, pipelineVars, opVars, updVars, taskVars>>
    \/ \E t \in {1}, u \in Draws : ShouldCaptureLocked(t, u) /\ UNCHANGED <<lockVars, samplerVars, pipelineVars, opVars, updVars, taskVars>>
    \/ \E k \in Keys : ResetKey(k) /\ UNCHANGED <<lockVars, samplerVars, pipelineVars, opVars, updVars, taskVars>>
    \/ ResetAll /\ UNCHANGED <<lockVars, samplerVars, pipelineVars, opVars, updVars, taskVars>>
    \/ ClearAlerts /\ UNCHANGED <<lockVars, samplerVars, pipelineVars, opVars, updVars, taskVars>>
    \/ Enable /\ UNCHANGED <<lockVars, samplerVars, pipelineVars, opVars, updVars, taskVars>>
    \/ Disable /\ UNCHANGED <<lockVars, samplerVars, pipelineVars, opVars, updVars, taskVars>>
    \/ \E sc \in ScopesOf(kind), c \in ScopeConfigs(kind) : EnableScope(sc, c) /\ UNCHANGED <<lockVars, samplerVars, pipelineVars, opVars, updVars, taskVars>>
    \/ \E sc \in ScopesOf(kind) : DisableScope(sc) /\ UNCHANGED <<lockVars, samplerVars, pipelineVars, opVars, updVars, taskVars>>
    \/ \E c \in ReConfigs(kind) : SetConfig(c) /\ UNCHANGED <<lockVars, samplerVars, pipelineVars, opVars, updVars, taskVars>>
    \/ \E sc \in ScopesOf(kind), c \in ScopeConfigs(kind) : SetConfigScope(c, sc) /\ UNCHANGED <<lockVars, samplerVars, pipelineVars, opVars, updVars, taskVars>>

\* The limiter with its configuration operations: one caller of
\* should_capture, and the other operations between any two of its steps.
SpecLimiter == InitLimiter /\ [][NextLimiter]_vars

\* ---------------------------------------------- sampler specifications
\* The values of the arguments and draws a call's result can depend on, given
\* where the call goes: the draw where _sample_random runs, the clock where
\* time.time() is read, the body and the query where the pattern is hashed.
DrawsAt(step) == IF step = "random" THEN Draws ELSE {0}
TimesAt(step) == IF step \in {"record", "record_error"} THEN now..MaxTime ELSE {now}
BodiesAt(step, values) == IF step = "cluster" THEN values ELSE {PyNone}

SamplerCall(t, budget, paths, methods, statuses, durations, bodies, queries) ==
    /\ nsamples < budget
    /\ \E e \in paths, m \in methods, sc \in statuses, d \in durations :
          LET step == BeginStep(sconfig, e, sc, d) IN
          \E u \in DrawsAt(step), tm \in TimesAt(step),
             b \in BodiesAt(step, bodies), q \in BodiesAt(step, queries) :
              SamplerBegin(t, e, m, sc, d, b, q, u, tm)

InitSampler ==
    /\ LimiterInit("type")
    /\ \E c \in SamplingConfigs : SamplerInit(c)
    /\ PipelineInit
    /\ TaskDatabaseInit

NextSampler ==
    \/ \E t \in {1} : SamplerCall(t, MaxSerial, SamplerPaths, {"GET"}, Statuses, Durations,
                                  ChainBodies, {PyNone})
                      /\ UNCHANGED <<lockVars, limiterVars, pipelineVars, opVars, updVars, taskVars>>
    \/ \E t \in {1} : SamplerRecord(t) /\ UNCHANGED <<lockVars, limiterVars, pipelineVars, opVars, updVars, taskVars>>
    \/ \E t \in {1}, u \in Draws : SamplerSampleAdaptive(t, u) /\ UNCHANGED <<lockVars, limiterVars, pipelineVars, opVars, updVars, taskVars>>
    \/ \E t \in {1}, u \in Draws : SamplerCluster(t, u) /\ UNCHANGED <<lockVars, limiterVars, pipelineVars, opVars, updVars, taskVars>>
    \/ \E t \in {1} : SamplerHead(t) /\ UNCHANGED <<lockVars, limiterVars, pipelineVars, opVars, updVars, taskVars>>
    \/ SamplerReset /\ UNCHANGED <<lockVars, limiterVars, pipelineVars, opVars, updVars, taskVars>>

\* One caller of Sampler.should_capture under each configuration, and
\* Sampler.reset between any two of its steps.
SpecSampler == InitSampler /\ [][NextSampler]_vars

\* The configurations whose strategy takes its decision under the lock.
LockedConfigs ==
    { c \in StrategyConfigs : c.strategy \in {"head", "clustering"} }

InitSamplerThreads ==
    /\ LimiterInit("type")
    /\ \E c \in LockedConfigs : SamplerInit(c)
    /\ PipelineInit
    /\ TaskDatabaseInit

NextSamplerThreads ==
    \/ \E t \in Threads : SamplerCall(t, MaxSamples, {PathB}, Methods, {200}, {None},
                                      SamplerBodies, {PyNone})
                          /\ UNCHANGED <<lockVars, limiterVars, pipelineVars, opVars, updVars, taskVars>>
    \/ \E t \in Threads, u \in Draws : SamplerCluster(t, u) /\ UNCHANGED <<lockVars, limiterVars, pipelineVars, opVars, updVars, taskVars>>
    \/ \E t \in Threads : SamplerHead(t) /\ UNCHANGED <<lockVars, limiterVars, pipelineVars, opVars, updVars, taskVars>>
    \/ SamplerReset /\ UNCHANGED <<lockVars, limiterVars, pipelineVars, opVars, updVars, taskVars>>

\* Concurrent callers of Sampler.should_capture whose calls reach the
\* strategy step, and Sampler.reset between any two of their steps.
SpecSamplerThreads == InitSamplerThreads /\ [][NextSamplerThreads]_vars

\* ---------------------------------------------- adaptive specification
\* The ADAPTIVE configurations: the default rates (base 0.1); a cap of 0.5
\* that the rate reaches; a cap of 0.05, below the base rate (SamplingConfig
\* checks neither field against the other); a window of 0 seconds, which
\* every entry has left when it is recorded; each with the error override on
\* and off.
AdaptiveConfigs ==
    { [c EXCEPT !.always_capture_errors = e] :
        c \in { [DefaultSamplingConfig EXCEPT !.strategy = "adaptive", !.adaptive_max_rate = m] :
                    m \in {DefaultMaxRate, 50, 5} }
              \cup { [DefaultSamplingConfig EXCEPT !.strategy = "adaptive",
                                                  !.adaptive_window_seconds = 0] },
        e \in BOOLEAN }

InitAdaptive ==
    /\ LimiterInit("type")
    /\ \E c \in AdaptiveConfigs : SamplerInit(c)
    /\ PipelineInit
    /\ TaskDatabaseInit

NextAdaptive ==
    \/ \E t \in Threads : SamplerCall(t, MaxRecords, {PathB}, {"GET"}, {200, 500}, {None},
                                      {PyNone}, {PyNone})
                          /\ UNCHANGED <<lockVars, limiterVars, pipelineVars, opVars, updVars, taskVars>>
    \/ \E t \in Threads : SamplerRecord(t) /\ UNCHANGED <<lockVars, limiterVars, pipelineVars, opVars, updVars, taskVars>>
    \/ \E t \in Threads, u \in Draws : SamplerSampleAdaptive(t, u)
                                        /\ UNCHANGED <<lockVars, limiterVars, pipelineVars, opVars, updVars, taskVars>>
    \/ SamplerReset /\ UNCHANGED <<lockVars, limiterVars, pipelineVars, opVars, updVars, taskVars>>

\* Concurrent callers of Sampler.should_capture under ADAPTIVE: each reads the
\* clock, then records under the lock, then draws against the rate; and
\* Sampler.reset between any two of their steps.
SpecAdaptive == InitAdaptive /\ [][NextAdaptive]_vars

\* ------------------------------------------- reconfiguration specification
\* The sampler configurations the host application installs and replaces: a
\* HEAD budget of one call per scope, CLUSTERING without the fallback draw,
\* and ADAPTIVE with the default rates.
ReconfigureConfigs ==
    { [DefaultSamplingConfig EXCEPT !.strategy = "head", !.head_count = 1],
      [DefaultSamplingConfig EXCEPT !.strategy = "clustering", !.base_rate = 0],
      [DefaultSamplingConfig EXCEPT !.strategy = "adaptive"] }

\* JSON bodies posted to the dashboard's sampling endpoint, and to its
\* type-limit / function-limit endpoints.
SamplingUpdates ==
    { "strategy" :> "adaptive", "head_count" :> MaxHead, "always_capture_errors" :> FALSE }
LimitUpdates ==
    { "enabled" :> FALSE, "limit_per_type" :> MaxLimit, "limit_per_function" :> MaxLimit }

InitReconfigure ==
    /\ \E k \in {"type", "function"} :
          LimiterConfigured(k, [DefaultConfig(k) EXCEPT !.limit = 1])
    /\ \E c \in ReconfigureConfigs : SamplerInit(c)
    /\ PipelineInit
    /\ TaskDatabaseInit

\* The caller is inside neither component: it makes one call at a time.
CallerOutside(t) == spc[t] \in {"idle", "done"} /\ lpc[t] \in {"idle", "done", "raised"}

NextReconfigure ==
    \/ \E t \in {1} : /\ CallerOutside(t)
                      /\ SamplerCall(t, MaxSerial, {PathB}, {"GET"}, {200, 500}, {None},
                                     ChainBodies, {PyNone})
                      /\ UNCHANGED <<lockVars, limiterVars, pipelineVars, opVars, updVars, taskVars>>
    \/ \E t \in {1} : SamplerRecord(t) /\ UNCHANGED <<lockVars, limiterVars, pipelineVars, opVars, updVars, taskVars>>
    \/ \E t \in {1}, u \in Draws : SamplerSampleAdaptive(t, u)
                                    /\ UNCHANGED <<lockVars, limiterVars, pipelineVars, opVars, updVars, taskVars>>
    \/ \E t \in {1}, u \in {0} : SamplerCluster(t, u) /\ UNCHANGED <<lockVars, limiterVars, pipelineVars, opVars, updVars, taskVars>>
    \/ \E t \in {1} : SamplerHead(t) /\ UNCHANGED <<lockVars, limiterVars, pipelineVars, opVars, updVars, taskVars>>
    \/ SamplerReset /\ UNCHANGED <<lockVars, limiterVars, pipelineVars, opVars, updVars, taskVars>>
    \/ \E c \in ReconfigureConfigs : ConfigureSampling(c) /\ UNCHANGED <<lockVars, limiterVars, pipelineVars, opVars, updVars, taskVars>>
    \/ \E d \in SamplingUpdates : UpdateSampling(d) /\ UNCHANGED <<lockVars, limiterVars, pipelineVars, opVars, updVars, taskVars>>
    \/ \E t \in {1} : /\ CallerOutside(t)
                      /\ ncalls < MaxSerial
                      /\ TypeShouldCaptureBegin(t, PathA, PyDict("type" :> PyStr("A")))
                      /\ UNCHANGED <<lockVars, samplerVars, pipelineVars, opVars, updVars, taskVars>>
    \/ \E t \in {1} : /\ CallerOutside(t)
                      /\ ncalls < MaxSerial
                      /\ FunctionShouldCaptureBegin(t, "A")
                      /\ UNCHANGED <<lockVars, samplerVars, pipelineVars, opVars, updVars, taskVars>>
    \/ \E t \in {1} : GetConfigTest(t) /\ UNCHANGED <<lockVars, samplerVars, pipelineVars, opVars, updVars, taskVars>>
    \/ \E t \in {1} : GetConfigDefault(t) /\ UNCHANGED <<lockVars, samplerVars, pipelineVars, opVars, updVars, taskVars>>
    \/ \E t \in {1}, u \in {0} : ShouldCaptureLocked(t, u)
                                  /\ UNCHANGED <<lockVars, samplerVars, pipelineVars, opVars, updVars, taskVars>>
    \/ \E k \in {"A"} : ResetKey(k) /\ UNCHANGED <<lockVars, samplerVars, pipelineVars, opVars, updVars, taskVars>>
    \/ ResetAll /\ UNCHANGED <<lockVars, samplerVars, pipelineVars, opVars, updVars, taskVars>>
    \/ \E c \in {DefaultConfig(kind)} : ConfigureLimits(c) /\ UNCHANGED <<lockVars, samplerVars, pipelineVars, opVars, updVars, taskVars>>
    \/ \E d \in LimitUpdates : UpdateLimits(d) /\ UNCHANGED <<lockVars, samplerVars, pipelineVars, opVars, updVars, taskVars>>

\* One caller of the sampler and of a limiter, with the operations that
\* reconfigure and reset them between any two of its steps.
SpecReconfigure == InitReconfigure /\ [][NextReconfigure]_vars

\* ------------------------------------------ reset and alert specification
\* The limiter as an operation found it.
Snapshot ==
    [ counts |-> counts, stopped |-> stopped, alerts |-> alerts,
      enabled |-> enabled, config |-> config, endpoints |-> endpoints ]

\* The operation just made: its name, argument, return value, whether it
\* raised, and the limiter as it found it.
Logged(op, arg, ret, raised) ==
    last_op' = [ op |-> op, arg |-> arg, ret |-> ret, raised |-> raised, before |-> Snapshot ]

\* The configurations the resets are made under: every limit from 0 with
\* limit_action "stop", with and without alerts, and one that samples all of
\* the overflow.
ResetConfigs(k) ==
    { c \in ConfigsOf(k) :
        /\ c.field_path = DefaultConfig(k).field_path
        /\ \/ c.limit_action = "stop"
           \/ c.limit = 1 /\ c.alert_on_limit /\ c.overflow_sample_rate = 100 }

InitReset ==
    /\ \E k \in {"type", "function"} : \E c \in ResetConfigs(k) : LimiterConfigured(k, c)
    /\ SamplerInit(DefaultSamplingConfig)
    /\ PipelineInit
    /\ TaskDatabaseInit

NextReset ==
    \/ \E t \in {1}, b \in QuotaBodies :
          TypeShouldCaptureBegin(t, PathA, b) /\ last_op' = NoOp
          /\ UNCHANGED <<lockVars, samplerVars, pipelineVars, updVars, taskVars>>
    \/ \E t \in {1}, fn \in Keys :
          FunctionShouldCaptureBegin(t, fn) /\ last_op' = NoOp
          /\ UNCHANGED <<lockVars, samplerVars, pipelineVars, updVars, taskVars>>
    \/ \E t \in {1} : GetConfigTest(t) /\ last_op' = NoOp
                      /\ UNCHANGED <<lockVars, samplerVars, pipelineVars, updVars, taskVars>>
    \/ \E t \in {1} : GetConfigDefault(t) /\ last_op' = NoOp
                      /\ UNCHANGED <<lockVars, samplerVars, pipelineVars, updVars, taskVars>>
    \/ \E t \in {1}, u \in {0} : ShouldCaptureLocked(t, u) /\ last_op' = NoOp
                                  /\ UNCHANGED <<lockVars, samplerVars, pipelineVars, updVars, taskVars>>
    \/ Enable /\ last_op' = NoOp /\ UNCHANGED <<lockVars, samplerVars, pipelineVars, updVars, taskVars>>
    \/ Disable /\ last_op' = NoOp /\ UNCHANGED <<lockVars, samplerVars, pipelineVars, updVars, taskVars>>
    \/ \E k \in Keys :
          /\ ResetKey(k)
          /\ Logged("reset", k, TRUE, ResetState(counts, stopped, k).raised)
          /\ UNCHANGED <<lockVars, samplerVars, pipelineVars, updVars, taskVars>>
    \/ ResetAll /\ Logged("reset_all", NoKey, PyNone, FALSE)
                /\ UNCHANGED <<lockVars, samplerVars, pipelineVars, updVars, taskVars>>
    \/ ClearAlerts /\ Logged("clear_alerts", NoKey, Len(alerts), FALSE)
                   /\ UNCHANGED <<lockVars, samplerVars, pipelineVars, updVars, taskVars>>
    \/ \E limit \in 0..MaxCalls :
          /\ GetAlertsCall(limit)
          /\ Logged("get_alerts", limit, GetAlerts(alerts, limit), FALSE)
          /\ UNCHANGED <<lockVars, samplerVars, pipelineVars, updVars, taskVars>>

\* One caller of should_capture on a limiter, and the limiter's reset and
\* alert operations (with enable and disable) between any two of its steps.
SpecReset == InitReset /\ [][NextReset]_vars

\* ------------------------------------------ dashboard update specification
\* The bodies posted to the dashboard's update endpoints of a limiter: the
\* limiter switched on, switched on with a lower limit, switched off, and two
\* bodies whose values no limiter understands.
UpdateBodies(k) ==
    LET limit_key == IF k = "type" THEN "limit_per_type" ELSE "limit_per_function" IN
    { "enabled" :> TRUE,
      ("enabled" :> TRUE) @@ (limit_key :> 1),
      "enabled" :> FALSE,
      "limit_action" :> "drop",
      "overflow_sample_rate" :> 150 }

\* The bodies posted to update_sampling: a strategy string that names no
\* strategy, and a rate above 1.
SamplingBodies == { "strategy" :> "sometimes", "base_rate" :> 150 }

InitUpdate ==
    /\ \E k \in {"type", "function"} : LimiterInit(k)
    /\ SamplerInit(DefaultSamplingConfig)
    /\ PipelineInit
    /\ TaskDatabaseInit

\* A should_capture call that reads _enabled while an update is between its
\* two statements is noted in the update's frame.
NotedBy(t) ==
    upd' = IF upd.pc = "set_config" THEN [upd EXCEPT !.began = @ \cup {t}] ELSE upd

NextUpdate ==
    \/ \E t \in {1}, b \in QuotaBodies :
          TypeShouldCaptureBegin(t, PathB, b) /\ NotedBy(t)
          /\ UNCHANGED <<lockVars, samplerVars, pipelineVars, opVars, taskVars>>
    \/ \E t \in {1}, fn \in Keys :
          FunctionShouldCaptureBegin(t, fn) /\ NotedBy(t)
          /\ UNCHANGED <<lockVars, samplerVars, pipelineVars, opVars, taskVars>>
    \/ \E t \in {1} : GetConfigTest(t) /\ UNCHANGED <<lockVars, samplerVars, pipelineVars, opVars, updVars, taskVars>>
    \/ \E t \in {1} : GetConfigDefault(t) /\ UNCHANGED <<lockVars, samplerVars, pipelineVars, opVars, updVars, taskVars>>
    \/ \E t \in {1}, u \in Draws : ShouldCaptureLocked(t, u)
                                   /\ UNCHANGED <<lockVars, samplerVars, pipelineVars, opVars, updVars, taskVars>>
    \/ \E data \in UpdateBodies(kind) :
          UpdateLimitsEnable(data) /\ UNCHANGED <<lockVars, samplerVars, pipelineVars, opVars, taskVars>>
    \/ UpdateLimitsSetConfig /\ UNCHANGED <<lockVars, samplerVars, pipelineVars, opVars, taskVars>>
    \/ \E data \in SamplingBodies :
          UpdateSampling(data) /\ UNCHANGED <<lockVars, limiterVars, pipelineVars, opVars, updVars, taskVars>>

\* One caller of should_capture on a limiter while the dashboard's update
\* endpoints are served on another thread.
SpecUpdate == InitUpdate /\ [][NextUpdate]_vars

\* --------------------------------------- per-endpoint config specification
\* The should_capture calls allowed so far under a scope's own config, per
\* scope and key, as the log of the last call carries it.
Tally == IF last_op.op = "should_capture" THEN last_op.tally ELSE EmptyDict

\* The should_capture call that has just returned from the locked section:
\* its scope, key, config and result, whether the config was the scope's
\* own, and how many calls for the key under the scope's own config had been
\* allowed before it.
CallLogged(t) ==
    LET f == lframe[t]
        sk == <<f.scope, f.key>>
        own == f.scope \in DOMAIN endpoints /\ f.cfg = endpoints[f.scope]
        seen == Get(Tally, sk, 0)
    IN  last_op' = [ op |-> "should_capture", scope |-> f.scope, key |-> f.key, cfg |-> f.cfg,
                     own |-> own, ret |-> lframe'[t].allowed, seen |-> seen,
                     tally |-> IF own /\ lframe'[t].allowed THEN Put(Tally, sk, seen + 1)
                               ELSE Tally ]

\* A type limiter configured with limit 1, to which the dashboard's
\* set_endpoint_config gives one endpoint a config of its own with limit 2.
InitEndpoint ==
    /\ LimiterConfigured("type", [DefaultConfig("type") EXCEPT !.limit = 1])
    /\ SamplerInit(DefaultSamplingConfig)
    /\ PipelineInit
    /\ TaskDatabaseInit

NextEndpoint ==
    \/ \E t \in {1}, e \in {PathA, PathB}, b \in QuotaBodies :
          /\ e = PathA => PathA \in DOMAIN endpoints
          /\ TypeShouldCaptureBegin(t, e, b)
          /\ UNCHANGED <<lockVars, samplerVars, pipelineVars, opVars, updVars, taskVars>>
    \/ \E t \in {1} : GetConfigTest(t) /\ UNCHANGED <<lockVars, samplerVars, pipelineVars, opVars, updVars, taskVars>>
    \/ \E t \in {1} : GetConfigOverride(t) /\ UNCHANGED <<lockVars, samplerVars, pipelineVars, opVars, updVars, taskVars>>
    \/ \E t \in {1} : GetConfigDefault(t) /\ UNCHANGED <<lockVars, samplerVars, pipelineVars, opVars, updVars, taskVars>>
    \/ \E t \in {1}, u \in {0} :
          ShouldCaptureLocked(t, u) /\ CallLogged(t)
          /\ UNCHANGED <<lockVars, samplerVars, pipelineVars, updVars, taskVars>>
    \/ /\ PathA \notin DOMAIN endpoints
       /\ EnableScope(PathA, [DefaultConfig("type") EXCEPT !.limit = MaxLimit])
       /\ UNCHANGED <<lockVars, samplerVars, pipelineVars, opVars, updVars, taskVars>>

\* One caller of a type limiter through two endpoints, one of which is given
\* a config of its own and is called only once it has it.
SpecEndpoint == InitEndpoint /\ [][NextEndpoint]_vars

\* ------------------------------------------- task database specifications
\* datetime.utcnow() as a method reads it: the last reading or a later one.
Clock == utcnow..Min(utcnow + 1, MaxTime)

InitWorkers ==
    /\ LimiterInit("type")
    /\ SamplerInit(DefaultSamplingConfig)
    /\ PipelineInit
    /\ TaskDatabaseInit

NextWorkers ==
    \/ \E w \in {1, 2}, tm \in Clock :
          CreateTask(w, "medium", MaxRetries, tm)
          /\ UNCHANGED <<lockVars, limiterVars, samplerVars, pipelineVars, opVars, updVars>>
    \/ \E w \in {1, 2}, id \in TaskIds, tm \in Clock :
          ClaimTask(w, id, w, tm)
          /\ UNCHANGED <<lockVars, limiterVars, samplerVars, pipelineVars, opVars, updVars>>
    \/ \E w \in {1, 2} :
          ClaimNextSelect(w, w, NoPriority)
          /\ UNCHANGED <<lockVars, limiterVars, samplerVars, pipelineVars, opVars, updVars>>
    \/ \E w \in {1, 2}, tm \in Clock :
          ClaimNextClaim(w, tm)
          /\ UNCHANGED <<lockVars, limiterVars, samplerVars, pipelineVars, opVars, updVars>>
    \/ \E w \in {1, 2}, id \in TaskIds, tm \in Clock :
          StartProcessing(w, id, tm)
          /\ UNCHANGED <<lockVars, limiterVars, samplerVars, pipelineVars, opVars, updVars>>
    \/ \E w \in {1, 2}, id \in TaskIds :
          FailTaskRead(w, id)
          /\ UNCHANGED <<lockVars, limiterVars, samplerVars, pipelineVars, opVars, updVars>>
    \/ \E w \in {1, 2}, tm \in Clock :
          FailTaskUpdate(w, tm)
          /\ UNCHANGED <<lockVars, limiterVars, samplerVars, pipelineVars, opVars, updVars>>
    \/ \E w \in {1, 2} :
          ReturnGetTask(w)
          /\ UNCHANGED <<lockVars, limiterVars, samplerVars, pipelineVars, opVars, updVars>>

\* Two worker threads that create, claim, start and fail tasks, statement by
\* statement.
SpecWorkers == InitWorkers /\ [][NextWorkers]_vars

\* The priorities tasks are created with and asked for.
TaskPriorities == {"critical", "low"}

NextTasks ==
    \/ \E w \in {1}, p \in TaskPriorities, m \in 0..MaxRetries, tm \in Clock :
          CreateTask(w, p, m, tm)
          /\ UNCHANGED <<lockVars, limiterVars, samplerVars, pipelineVars, opVars, updVars>>
    \/ \E w \in {1}, id \in TaskIds :
          GetTaskCall(w, id)
          /\ UNCHANGED <<lockVars, limiterVars, samplerVars, pipelineVars, opVars, updVars>>
    \/ \E w \in {1}, id \in TaskIds, worker_id \in {2}, tm \in Clock :
          ClaimTask(w, id, worker_id, tm)
          /\ UNCHANGED <<lockVars, limiterVars, samplerVars, pipelineVars, opVars, updVars>>
    \/ \E w \in {1}, p \in TaskPriorities \cup {NoPriority} :
          ClaimNextSelect(w, 1, p)
          /\ UNCHANGED <<lockVars, limiterVars, samplerVars, pipelineVars, opVars, updVars>>
    \/ \E w \in {1}, tm \in Clock :
          ClaimNextClaim(w, tm)
          /\ UNCHANGED <<lockVars, limiterVars, samplerVars, pipelineVars, opVars, updVars>>
    \/ \E w \in {1}, id \in TaskIds, tm \in Clock :
          StartProcessing(w, id, tm)
          /\ UNCHANGED <<lockVars, limiterVars, samplerVars, pipelineVars, opVars, updVars>>
    \/ \E w \in {1}, id \in TaskIds, result \in {1}, tm \in Clock :
          CompleteTask(w, id, result, tm)
          /\ UNCHANGED <<lockVars, limiterVars, samplerVars, pipelineVars, opVars, updVars>>
    \/ \E w \in {1}, id \in TaskIds :
          FailTaskRead(w, id)
          /\ UNCHANGED <<lockVars, limiterVars, samplerVars, pipelineVars, opVars, updVars>>
    \/ \E w \in {1}, tm \in Clock :
          FailTaskUpdate(w, tm)
          /\ UNCHANGED <<lockVars, limiterVars, samplerVars, pipelineVars, opVars, updVars>>
    \/ \E w \in {1} :
          ReturnGetTask(w)
          /\ UNCHANGED <<lockVars, limiterVars, samplerVars, pipelineVars, opVars, updVars>>

\* One caller of the TaskDatabase methods, one method at a time.
SpecTasks == InitWorkers /\ [][NextTasks]_vars

\* ------------------------------------------ pattern hash specification
\* The dicts _create_pattern_hash is given: every order of up to two keys,
\* with two values for each.
ItemLists ==
    {<< >>}
    \cup { << <<k, v>> >> : k \in {"data", "type"}, v \in {1, 2} }
    \cup { << <<ks[1], v1>>, <<ks[2], v2>> >> :
              ks \in { <<"data", "type">>, <<"type", "data">> }, v1 \in {1, 2}, v2 \in {1, 2} }

\* Request bodies: None, a str, a dict.  Query parameters: None or a dict.
PatternBodies == {PyNone, PyStr("raw")} \cup { PyItems(l) : l \in ItemLists }
PatternQueries == {PyNone} \cup { PyItems(l) : l \in { << >>, << <<"type", 1>> >>, << <<"type", 2>> >> } }
PatternRequests ==
    [ endpoint : {PathA, PathH}, method : {"GET"}, body : PatternBodies, query : PatternQueries ]

InitPattern ==
    /\ LimiterInit("type")
    /\ SamplerInit(DefaultSamplingConfig)
    /\ PipelineInit
    /\ TaskDatabaseInit

\* _create_pattern_hash computed for two requests, and what it returned.
HashPair(a, b) ==
    /\ last_op = NoOp
    /\ last_op' = [ op |-> "create_pattern_hash", a |-> a, b |-> b,
                 hash_a |-> CreatePatternHashItems(a.endpoint, a.method, a.body, a.query),
                 hash_b |-> CreatePatternHashItems(b.endpoint, b.method, b.body, b.query) ]

NextPattern ==
    \E a \in PatternRequests, b \in PatternRequests :
        HashPair(a, b)
        /\ UNCHANGED <<lockVars, limiterVars, samplerVars, pipelineVars, updVars, taskVars>>

SpecPattern == InitPattern /\ [][NextPattern]_vars

\* ---------------------------------------------- pipeline specification
\* The sampler configurations the pipeline runs under: both overrides on (the
\* defaults), with a strategy that keeps nothing else and one that counts.
PipelineConfigs ==
    { [DefaultSamplingConfig EXCEPT !.strategy = "conditional"],
      [DefaultSamplingConfig EXCEPT !.strategy = "head", !.head_count = 1] }

PipelinePaths == {PathB, PathH, PathHx, PathDashboard}
PipelineBodies == { PyNone, PyDict("type" :> PyStr("A")) }
Measured == Durations \ {None}

\* The type limiter is the one get_type_limiter() constructs (not enabled),
\* or one that configure_type_limits(cfg) has installed and enabled.
InitPipeline ==
    /\ \/ LimiterInit("type")
       \/ \E c \in ReConfigs("type") : LimiterConfigured("type", c)
    /\ \E c \in PipelineConfigs : SamplerInit(c)
    /\ PipelineInit
    /\ TaskDatabaseInit

NextPipeline ==
    \/ \E t \in {1}, p \in PipelinePaths, b \in PipelineBodies :
          DispatchBegin(t, p, "POST", b, PyNone) /\ UNCHANGED <<lockVars, limiterVars, samplerVars, opVars, updVars, taskVars>>
    \/ \E t \in {1}, sc \in Statuses, d \in Measured :
          LET step == BeginStep(sconfig, dframe[t].path, sc, d) IN
          \E u \in DrawsAt(step), tm \in TimesAt(step) :
              DispatchSample(t, sc, d, u, tm) /\ UNCHANGED <<lockVars, limiterVars, opVars, updVars, taskVars>>
    \/ \E t \in {1} : SamplerHead(t) /\ UNCHANGED <<lockVars, limiterVars, pipelineVars, opVars, updVars, taskVars>>
    \/ \E t \in {1} : DispatchSampled(t) /\ UNCHANGED <<lockVars, limiterVars, samplerVars, opVars, updVars, taskVars>>
    \/ \E t \in {1} : DispatchLimit(t) /\ UNCHANGED <<lockVars, samplerVars, opVars, updVars, taskVars>>
    \/ \E t \in {1} : GetConfigTest(t) /\ UNCHANGED <<lockVars, samplerVars, pipelineVars, opVars, updVars, taskVars>>
    \/ \E t \in {1} : GetConfigDefault(t) /\ UNCHANGED <<lockVars, samplerVars, pipelineVars, opVars, updVars, taskVars>>
    \/ \E t \in {1}, u \in Draws : ShouldCaptureLocked(t, u)
                                   /\ UNCHANGED <<lockVars, samplerVars, pipelineVars, opVars, updVars, taskVars>>
    \/ \E t \in {1} : DispatchLimited(t) /\ UNCHANGED <<lockVars, limiterVars, samplerVars, opVars, updVars, taskVars>>
    \/ \E t \in {1} : DispatchStore(t) /\ UNCHANGED <<lockVars, limiterVars, samplerVars, opVars, updVars, taskVars>>
    \/ Enable /\ UNCHANGED <<lockVars, samplerVars, pipelineVars, opVars, updVars, taskVars>>
    \/ Disable /\ UNCHANGED <<lockVars, samplerVars, pipelineVars, opVars, updVars, taskVars>>
    \/ ResetAll /\ UNCHANGED <<lockVars, samplerVars, pipelineVars, opVars, updVars, taskVars>>

\* One request at a time through ChronicleMiddleware.dispatch, with the
\* limiter's enable, disable and reset_all between any two of its steps.
SpecPipeline == InitPipeline /\ [][NextPipeline]_vars

\* --------------------------------------------------- request store specification
\* The records stored: two paths, two status codes.
StoredRecords == { CapturedRequest([DIdleFrame EXCEPT !.path = p, !.status_code = sc]) :
                     p \in {PathA, PathB}, sc \in {200, 500} }

InitStore ==
    /\ LimiterInit("type")
    /\ SamplerInit(DefaultSamplingConfig)
    /\ PipelineInit
    /\ TaskDatabaseInit

NextStore ==
    \/ \E c \in StoredRecords :
          StoreCall(c) /\ UNCHANGED <<lockVars, limiterVars, samplerVars, updVars, taskVars>>
    \/ ClearCall /\ UNCHANGED <<lockVars, limiterVars, samplerVars, updVars, taskVars>>

\* _store_captured_request and clear_captured_requests called one after
\* another, as the event loop runs them.
SpecStore == InitStore /\ [][NextStore]_vars

\* ------------------------------------------------- lock specification
\* A type limiter with limit 1, and a sampler under one of the strategies
\* that take the lock.
LockConfigs ==
    { [DefaultSamplingConfig EXCEPT !.strategy = "clustering", !.base_rate = 0],
      [DefaultSamplingConfig EXCEPT !.strategy = "adaptive"],
      [DefaultSamplingConfig EXCEPT !.strategy = "head", !.head_count = 1] }

InitLocks ==
    /\ LimiterConfigured("type", [DefaultConfig("type") EXCEPT !.limit = 1])
    /\ \E c \in LockConfigs : SamplerInit(c)
    /\ PipelineInit
    /\ TaskDatabaseInit

\* A thread calls should_capture or one of the other methods.
Begins(t) ==
    \/ /\ Outside(t)
       /\ ncalls + nsamples < MaxLocked
       /\ TypeShouldCaptureBegin(t, PathA, PyDict("type" :> PyStr("A")))
       /\ OutsideLock("limiter", t, {"_enabled"})
       /\ UNCHANGED <<samplerVars, pipelineVars, updVars, taskVars>>
    \/ /\ Outside(t)
       /\ ncalls + nsamples < MaxLocked
       /\ SamplerCall(t, MaxLocked, {PathB}, {"GET"}, {200, 500}, {None},
                      {PyDict("type" :> PyStr("A"))}, {PyNone})
       /\ now' = now
       /\ OutsideLock("sampler", t, {"config"})
       /\ UNCHANGED <<limiterVars, pipelineVars, updVars, taskVars>>
    \/ \E m \in LimiterMethods :
          Enter("limiter", t, m) /\ UNCHANGED <<pipelineVars, updVars, taskVars>>
    \/ \E m \in SamplerMethods :
          Enter("sampler", t, m) /\ UNCHANGED <<pipelineVars, updVars, taskVars>>

\* A thread inside a call takes its next step, outside the lock or holding it.
Runs(t) ==
    \/ /\ GetConfigTest(t)
       /\ OutsideLock("limiter", t, {"_endpoints"})
       /\ UNCHANGED <<samplerVars, pipelineVars, updVars, taskVars>>
    \/ /\ GetConfigDefault(t)
       /\ OutsideLock("limiter", t, {"config"})
       /\ UNCHANGED <<samplerVars, pipelineVars, updVars, taskVars>>
    \/ /\ SamplerSampleAdaptive(t, 0)
       /\ OutsideLock("sampler", t, {"_adaptive_rate"})
       /\ UNCHANGED <<limiterVars, pipelineVars, updVars, taskVars>>
    \/ LimiterLocked(t, 0) /\ UNCHANGED <<samplerVars, pipelineVars, updVars, taskVars>>
    \/ \E m \in LimiterMethods :
          LimiterMethod(t, m, "A", 1)
          /\ UNCHANGED <<samplerVars, pipelineVars, updVars, taskVars>>
    \/ SamplerLocked(t, 0) /\ UNCHANGED <<limiterVars, pipelineVars, updVars, taskVars>>
    \/ \E m \in SamplerMethods :
          SamplerMethod(t, m) /\ UNCHANGED <<limiterVars, pipelineVars, updVars, taskVars>>

\* A thread at a "with self._lock:" gets the lock.
Waits(t) ==
    \E c \in Components : Acquire(c, t) /\ UNCHANGED <<pipelineVars, updVars, taskVars>>

NextLocks == \E t \in {1, 2} : Begins(t) \/ Runs(t) \/ Waits(t)

\* Two concurrent callers of should_capture, get_stats, get_alerts, clear_alerts
\* and the reset operations of one limiter and one sampler, with every
\* "with self._lock:" taken and left as a step of its own.
SpecLocks == InitLocks /\ [][NextLocks]_vars

\* Fair scheduling: a thread inside a call is not left standing forever
\* where it can step, and a thread waiting for a lock that is free again and
\* again gets it.
Fairness == \A t \in {1, 2} : WF_vars(Runs(t)) /\ SF_vars(Waits(t))

\* The same callers under fair scheduling.
SpecLocksFair == SpecLocks /\ Fairness

\* ================================================================ claims
CountTrue(seq) == Cardinality({i \in 1..Len(seq) : seq[i]})

\* C1: under a fixed config with limit_action "stop" and limit L, of the
\* should_capture calls made on one key since its last reset, exactly the
\* first L are allowed (the call that brings the count to L included) and
\* every later one is denied.
C1_StopAllowsExactlyFirstLimit ==
    config.limit_action = "stop" =>
        \A k \in Keys : \A i \in 1..Len(returned[k]) :
            returned[k][i] = (i <= config.limit)

C1_Witness ==
    /\ config.limit_action = "stop"
    /\ config.limit = 2
    /\ returned["A"] = <<TRUE, TRUE, FALSE>>

\* C2: with several threads inside should_capture on one key (fixed config,
\* "stop", limit L, no reset of the key), of the N calls decided so far
\* exactly min(N, L) were allowed, the key's count is min(N, L), and at most
\* one alert was appended for the key.
C2_ConcurrentCallsAllowMinOfCallsAndLimit ==
    config.limit_action = "stop" =>
        \A k \in Keys :
            LET n == Len(returned[k]) IN
            /\ CountTrue(returned[k]) = Min(n, config.limit)
            /\ Get(counts, k, 0) = Min(n, config.limit)
            /\ alerted[k] <= 1

\* Two threads have both been decided on key "A" under limit 1 while a third
\* call on "A" sits between its config read and the lock.
C2_Witness ==
    /\ config.limit_action = "stop"
    /\ config.limit = 1
    /\ config.alert_on_limit
    /\ Len(returned["A"]) = 2
    /\ alerted["A"] = 1
    /\ \E t1, t2 \in Threads :
          /\ t1 # t2
          /\ lpc[t1] = "lock" /\ lframe[t1].key = "A"
          /\ lpc[t2] = "done" /\ lframe[t2].type_value = "A" /\ ~lframe[t2].allowed

\* C3: a call made with alert_on_limit = true appends exactly one alert when
\* it moves its key into the stopped set, and none when the key is already
\* stopped or stays unstopped; the alert holds the key and the key's count
\* after the call, which is the limit when the call incremented the count.
C3_OneAlertPerStopTransition ==
    [][ \A t \in Threads :
          (lpc[t] = "lock" /\ lpc'[t] = "done") =>
             LET k == lframe[t].key
                 cfg == lframe[t].cfg
             IN  /\ (k \notin stopped /\ k \in stopped' /\ cfg.alert_on_limit) =>
                       /\ Len(alerts') = Len(alerts) + 1
                       /\ SubSeq(alerts', 1, Len(alerts)) = alerts
                       /\ alerts'[Len(alerts')].key = k
                       /\ alerts'[Len(alerts')].count = Get(counts', k, 0)
                       /\ (Get(counts', k, 0) # Get(counts, k, 0) =>
                              alerts'[Len(alerts')].count = cfg.limit)
                 /\ (k \in stopped \/ k \notin stopped') => alerts' = alerts
      ]_vars

\* Key "A" was stopped, reset, and stopped again: one alert for each time.
C3_Witness ==
    /\ Len(alerts) = 2
    /\ alerts[1].key = "A" /\ alerts[2].key = "A"
    /\ alerts[2].count = alerts[2].limit
    /\ "A" \in stopped

\* C4: while a key is stopped, every step other than reset of that key and
\* reset_all leaves the key stopped and its count as it is.
C4_StoppedKeyFrozenUntilReset ==
    [][ \A k \in Keys :
          (k \in stopped /\ ~ResetKey(k) /\ ~ResetAll) =>
             /\ k \in stopped'
             /\ (k \in DOMAIN counts') = (k \in DOMAIN counts)
             /\ Get(counts', k, 0) = Get(counts, k, 0)
      ]_vars

\* A call on the stopped key "A" was let through by the overflow draw, and
\* the count did not move.
C4_Witness ==
    /\ "A" \in stopped
    /\ \E t \in Threads :
          /\ lpc[t] = "done"
          /\ lframe[t].type_value = "A"
          /\ lframe[t].allowed
    /\ CountTrue(returned["A"]) > Get(counts, "A", 0)

\* C5: with always_capture_errors = true, a should_capture call whose status
\* code is in error_status_codes returns true under every strategy, scope and
\* draw, provided its endpoint matches no never-capture prefix.
C5_ErrorsCapturedOffNeverCapture ==
    sconfig.always_capture_errors =>
        \A t \in Threads :
            ( /\ spc[t] = "done"
              /\ sframe[t].status_code \in sconfig.error_status_codes
              /\ ~ShouldSkipEndpoint(sconfig, sframe[t].endpoint) )
            => sframe[t].ret

\* C5 as stated: every call with an error status code returns true.
C5_ErrorsAlwaysCaptured ==
    sconfig.always_capture_errors =>
        \A t \in Threads :
            (spc[t] = "done" /\ sframe[t].status_code \in sconfig.error_status_codes)
            => sframe[t].ret

\* An error on "/b" is captured under RANDOM at rate 0, with no duration given.
C5_Witness ==
    /\ sconfig.always_capture_errors
    /\ sconfig.strategy = "random" /\ sconfig.base_rate = 0
    /\ sconfig.always_capture_endpoints = {}
    /\ \E t \in Threads :
          /\ spc[t] = "done"
          /\ sframe[t].endpoint = PathB
          /\ sframe[t].status_code = 500
          /\ sframe[t].duration_ms = None
          /\ sframe[t].ret

\* C6: a should_capture call on an endpoint that matches a never-capture
\* prefix returns false at once, whatever else the endpoint, the status code
\* and the duration are, and leaves seen patterns, head counters, the
\* adaptive window and the adaptive rate as they were.
C6_NeverCaptureWinsAndTouchesNothing ==
    [][ \A t \in Threads :
          ( /\ spc[t] \in {"idle", "done"}
            /\ nsamples' = nsamples + 1
            /\ \A t2 \in Threads \ {t} : spc'[t2] = spc[t2] /\ sframe'[t2] = sframe[t2]
            /\ ShouldSkipEndpoint(sconfig, sframe'[t].endpoint) )
          => /\ spc'[t] = "done"
             /\ ~sframe'[t].ret
             /\ samState' = samState
      ]_vars

\* "/Hx" matches the never-capture prefix "/h" and the always-capture prefix
\* "/h", came back with an error status and slow, and was not captured; the
\* head counters it left alone are not empty.
C6_Witness ==
    /\ sconfig.strategy = "head"
    /\ head_counts # EmptyDict
    /\ sconfig.always_capture_errors /\ sconfig.always_capture_slow
    /\ \E t \in Threads :
          /\ spc[t] = "done"
          /\ sframe[t].endpoint = PathHx
          /\ ShouldSkipEndpoint(sconfig, PathHx)
          /\ ShouldAlwaysCaptureEndpoint(sconfig, PathHx)
          /\ sframe[t].status_code = 500
          /\ sframe[t].duration_ms = 1000
          /\ ~sframe[t].ret

\* C7: with always_capture_errors and always_capture_slow on, every request
\* that dispatch processes on an endpoint matching no never-capture prefix,
\* and that has an error status code or took latency_threshold_ms or longer,
\* is stored.
C7_PipelineStoresErrorsAndSlow ==
    (sconfig.always_capture_errors /\ sconfig.always_capture_slow) =>
        \A t \in Threads :
            ( /\ dpc[t] = "finished"
              /\ dframe[t].processed
              /\ ~ShouldSkipEndpoint(sconfig, dframe[t].path)
              /\ \/ dframe[t].status_code \in sconfig.error_status_codes
                 \/ dframe[t].duration_ms >= sconfig.latency_threshold_ms )
            => dframe[t].stored

\* C8: with strategy ALL, should_capture returns true for every endpoint that
\* matches no never-capture prefix, whatever the method, status code,
\* duration and the rest of the configuration.
C8_AllCapturesOffNeverCapture ==
    sconfig.strategy = "all" =>
        \A t \in Threads :
            (spc[t] = "done" /\ ~ShouldSkipEndpoint(sconfig, sframe[t].endpoint))
            => sframe[t].ret

\* C8 as stated: with strategy ALL every call returns true.
C8_AllCapturesEverything ==
    sconfig.strategy = "all" => \A t \in Threads : spc[t] = "done" => sframe[t].ret

\* Under ALL with both overrides off and no always-capture prefix, a fast 200
\* on "/b" is captured.
C8_Witness ==
    /\ sconfig.strategy = "all"
    /\ ~sconfig.always_capture_errors /\ ~sconfig.always_capture_slow
    /\ sconfig.always_capture_endpoints = {}
    /\ \E t \in Threads :
          /\ spc[t] = "done"
          /\ sframe[t].endpoint = PathB
          /\ sframe[t].status_code = 200
          /\ sframe[t].duration_ms = 999
          /\ sframe[t].ret

\* C9: with strategy HEAD and head_count H, of the calls decided at the
\* strategy step on one scope since the last reset, in the order they held
\* the lock, exactly the first H returned true; the scope's head counter is
\* the number of those and never exceeds H.  Callers interleave freely.
C9_HeadCapturesExactlyFirstH ==
    sconfig.strategy = "head" =>
        \A s \in Scopes :
            /\ \A i \in 1..Len(decided[s]) : decided[s][i].ret = (i <= sconfig.head_count)
            /\ Get(head_counts, s, 0) = Min(Len(decided[s]), sconfig.head_count)
            /\ Get(head_counts, s, 0) <= sconfig.head_count

\* Two calls on GET:/b were decided under head_count 1, the scope POST:/b
\* took its own first call, and one more caller on GET:/b waits for the lock.
C9_Witness ==
    /\ sconfig.strategy = "head"
    /\ sconfig.head_count = 1
    /\ Len(decided[EndpointKey("GET", PathB)]) = 2
    /\ decided[EndpointKey("GET", PathB)][1].ret
    /\ ~decided[EndpointKey("GET", PathB)][2].ret
    /\ Len(decided[EndpointKey("POST", PathB)]) = 1
    /\ decided[EndpointKey("POST", PathB)][1].ret
    /\ \E t1, t2 \in Threads :
          /\ t1 # t2
          /\ spc[t1] = "head" /\ sframe[t1].method = "GET"
          /\ spc[t2] = "done" /\ sframe[t2].method = "GET" /\ ~sframe[t2].ret

\* The fingerprints of three field sets on the scope GET:/b.
PatternA == CreatePatternHash(PathB, "GET", PyDict("type" :> PyStr("A")), PyNone)
PatternB == CreatePatternHash(PathB, "GET", PyDict("data" :> PyDict("type" :> PyStr("A"))), PyNone)
PatternC == CreatePatternHash(PathB, "GET", PyNone, PyNone)

\* C10: with strategy CLUSTERING and base_rate 0, the call that runs the
\* strategy step returns true exactly when its fingerprint is not in its
\* scope's seen-set and that set holds fewer than max_patterns_per_endpoint
\* fingerprints; and under a cap of 2 the fingerprints A, A, B, C decided in
\* this order on one scope get true, false, true, false.
C10_ClusteringCapturesNewPatternsUnderCap ==
    /\ [][ \A t \in Threads :
             ( /\ sconfig.strategy = "clustering" /\ sconfig.base_rate = 0
               /\ spc[t] = "cluster" /\ spc'[t] = "done" )
             => LET seen == Get(seen_patterns, EndpointKey(sframe[t].method, sframe[t].endpoint), {})
                IN  sframe'[t].ret = ( /\ sframe[t].pattern \notin seen
                                       /\ Cardinality(seen) < sconfig.max_patterns_per_endpoint )
         ]_vars
    /\ [] ( ( /\ sconfig.strategy = "clustering" /\ sconfig.base_rate = 0
              /\ sconfig.max_patterns_per_endpoint = 2 )
            => \A s \in Scopes :
                 [i \in 1..Len(decided[s]) |-> decided[s][i].pattern]
                     = <<PatternA, PatternA, PatternB, PatternC>>
                 => [i \in 1..Len(decided[s]) |-> decided[s][i].ret]
                     = <<TRUE, FALSE, TRUE, FALSE>> )

\* The four calls of the example, decided on the scope GET:/b.
C10_Witness ==
    /\ sconfig.strategy = "clustering" /\ sconfig.base_rate = 0
    /\ sconfig.max_patterns_per_endpoint = 2
    /\ decided[EndpointKey("GET", PathB)] =
          << [pattern |-> PatternA, ret |-> TRUE], [pattern |-> PatternA, ret |-> FALSE],
             [pattern |-> PatternB, ret |-> TRUE], [pattern |-> PatternC, ret |-> FALSE] >>

ErrorsIn(rr) == Cardinality({i \in 1..Len(rr) : rr[i][2]})

\* min(base_rate * (1 + errors/total * adaptive_error_multiplier),
\* adaptive_max_rate) over the window rr, and base_rate over an empty window.
CappedRate(rr, cfg) ==
    LET n == Len(rr)
        product == cfg.base_rate * (n + ErrorsIn(rr) * cfg.adaptive_error_multiplier)
    IN  IF n = 0 THEN Rat(cfg.base_rate, 1)
        ELSE IF product <= cfg.adaptive_max_rate * n THEN Rat(product, n)
        ELSE Rat(cfg.adaptive_max_rate, 1)

\* C12 (with base_rate <= adaptive_max_rate): in every reachable state of a
\* Sampler whose base_rate is at most its adaptive_max_rate, the adaptive
\* rate is at least base_rate and at most adaptive_max_rate.
C12_RateWithinBoundsWhenBaseBelowMax ==
    sconfig.base_rate <= sconfig.adaptive_max_rate =>
        /\ sconfig.base_rate * adaptive_rate.den <= adaptive_rate.num
        /\ adaptive_rate.num <= sconfig.adaptive_max_rate * adaptive_rate.den

\* C12 (as stated): in every reachable state of a Sampler the adaptive rate
\* lies in the closed interval [base_rate, adaptive_max_rate].
C12_RateWithinBounds ==
    /\ sconfig.base_rate * adaptive_rate.den <= adaptive_rate.num
    /\ adaptive_rate.num <= sconfig.adaptive_max_rate * adaptive_rate.den

\* Under a cap of 0.5 a window of two errors has brought the rate to the cap
\* (0.1 * (1 + 1 * 5) = 0.6 is above it).
C12_Witness ==
    /\ sconfig.strategy = "adaptive"
    /\ sconfig.adaptive_max_rate = 50
    /\ Len(recent_requests) = 2
    /\ ErrorsIn(recent_requests) = 2
    /\ adaptive_rate = Rat(50, 1)

\* C13 (relative to the recording call's clock reading): when a call has
\* recorded, every entry of the window has a timestamp later than t minus
\* adaptive_window_seconds, where t is the time that call read before it took
\* the lock.
C13_RecordingLeavesEntriesOfItsWindow ==
    [][ \A t \in Threads :
          ( spc[t] \in {"record", "record_error"} /\ spc'[t] \notin {"record", "record_error"} )
          => \A i \in 1..Len(recent_requests') :
                recent_requests'[i][1] > sframe[t].now - sconfig.adaptive_window_seconds
      ]_vars

\* C13 (as stated): every entry of the window has a timestamp >= now minus
\* adaptive_window_seconds, now being the current time; looked at in the
\* states where no caller stands between its clock reading and its recording.
C13_WindowEntriesNeverStale ==
    (\A t \in Threads : spc[t] \notin {"record", "record_error"})
    => \A i \in 1..Len(recent_requests) :
          recent_requests[i][1] >= now - sconfig.adaptive_window_seconds

\* A caller that read the clock at 0 recorded after one that read it at 2:
\* both entries are in the window, the clock stands at 2, the window is 1.
C13_Witness ==
    /\ sconfig.adaptive_window_seconds = 1
    /\ now = 2
    /\ Len(recent_requests) = 2
    /\ recent_requests[1][1] = 2
    /\ recent_requests[2][1] = 0
    /\ \A t \in Threads : spc[t] \notin {"record", "record_error"}

\* C14 (rate by cases): under ADAPTIVE, in exact arithmetic, the rate is
\* min(base_rate * (1 + errors/total * adaptive_error_multiplier),
\* adaptive_max_rate) when the window left by the last recording holds an
\* error, and base_rate when it holds none or is empty; with base_rate 0.1,
\* multiplier 5, max rate 1.0 and a window of errors only it is 0.6.
C14_RateFollowsErrorShare ==
    sconfig.strategy = "adaptive" =>
        /\ adaptive_rate = IF ErrorsIn(recent_requests) > 0
                            THEN CappedRate(recent_requests, sconfig)
                            ELSE Rat(sconfig.base_rate, 1)
        /\ ( /\ sconfig.base_rate = 10 /\ sconfig.adaptive_error_multiplier = 5
              /\ sconfig.adaptive_max_rate = 100
              /\ Len(recent_requests) > 0
              /\ ErrorsIn(recent_requests) = Len(recent_requests) )
            => adaptive_rate = [num |-> 60, den |-> 1]

\* C14 (as stated): under ADAPTIVE the rate is min(base_rate * (1 + errorRate
\* * adaptive_error_multiplier), adaptive_max_rate) over the window left by
\* the last recording, and base_rate when that window is empty.
C14_RateIsCappedProduct ==
    sconfig.strategy = "adaptive" => adaptive_rate = CappedRate(recent_requests, sconfig)

\* The example: default rates, a window of two errors, rate 0.6.
C14_Witness ==
    /\ sconfig.strategy = "adaptive"
    /\ sconfig.base_rate = 10 /\ sconfig.adaptive_error_multiplier = 5
    /\ sconfig.adaptive_max_rate = 100
    /\ Len(recent_requests) = 2
    /\ ErrorsIn(recent_requests) = 2
    /\ adaptive_rate = [num |-> 60, den |-> 1]

\* C15: a call captured by the error override (always_capture_errors on,
\* status code in the error set) appends an error entry to the adaptive
\* window whatever the strategy is, and a switch of the strategy to ADAPTIVE
\* leaves the window as it was, so the window then holds the errors seen
\* before the switch.
C15_ErrorOverrideFeedsWindowUnderEveryStrategy ==
    /\ [][ \A t \in Threads :
             ( /\ spc'[t] = "done"
               /\ nsamples' # nsamples \/ spc[t] = "record_error"
               /\ Override(sconfig, sframe'[t].endpoint, sframe'[t].status_code,
                           sframe'[t].duration_ms) = "error" )
             => /\ recent_requests' # recent_requests
                /\ Len(recent_requests') > 0
                /\ recent_requests'[Len(recent_requests')] = <<now', TRUE>>
         ]_vars
    /\ [][ ( sconfig.strategy # "adaptive" /\ sconfig'.strategy = "adaptive" )
             => recent_requests' = recent_requests
         ]_vars

\* C16: the state of the sampler (seen patterns, head counters, adaptive
\* window) and of a limiter (counts, stopped keys, alerts) is kept by every
\* step that reconfigures it: a step that changes the sampler's config leaves
\* the sampler's state as it was, a step that changes a limiter's config or
\* enabled flag leaves the limiter's state as it was.
C16_ReconfiguringKeepsState ==
    [][ /\ sconfig' # sconfig
           => <<seen_patterns, head_counts, recent_requests>>'
                  = <<seen_patterns, head_counts, recent_requests>>
        /\ ( config' # config \/ enabled' # enabled )
           => <<counts, stopped, alerts>>' = <<counts, stopped, alerts>>
      ]_vars

\* The alerts in the log that name the key.
AlertsFor(key) == Cardinality({i \in 1..Len(alerts) : alerts[i].key = key})

\* The key was stopped and then reset: the log holds an alert for it that is
\* older than its last reset.
StoppedBeforeReset(key) == AlertsFor(key) > alerted[key]

\* What a reset of a key leaves: the key out of the stopped set and without
\* a count, every other key's count and stopped status and the alert log as
\* the reset found them.
ResetFrame ==
    last_op.op = "reset" =>
        /\ last_op.arg \notin stopped
        /\ Get(counts, last_op.arg, 0) = 0
        /\ \A j \in Keys \ {last_op.arg} :
              /\ Get(counts, j, None) = Get(last_op.before.counts, j, None)
              /\ (j \in stopped) = (j \in last_op.before.stopped)
        /\ alerts = last_op.before.alerts

\* C17 (for limits of at least 1): a reset of a key leaves it out of the
\* stopped set with count 0 and leaves the other keys and the alert log
\* unchanged; if the limit is at least 1, the first should_capture decided
\* for a key after the reset that followed its stop returns true; and under
\* limit_action "stop" exactly the first `limit` calls decided after that
\* reset are allowed.
C17_ResetReopensKeyForLimitCalls ==
    /\ ResetFrame
    /\ \A k \in Keys :
          StoppedBeforeReset(k) =>
            /\ (config.limit >= 1 /\ Len(returned[k]) >= 1) => returned[k][1]
            /\ config.limit_action = "stop" =>
                  \A i \in 1..Len(returned[k]) : returned[k][i] = (i <= config.limit)

\* C17 (as stated): the same, with the first should_capture after the reset
\* returning true under every limit.
C17_ResetAllowsNextCall ==
    /\ ResetFrame
    /\ \A k \in Keys :
          StoppedBeforeReset(k) =>
            /\ Len(returned[k]) >= 1 => returned[k][1]
            /\ config.limit_action = "stop" =>
                  \A i \in 1..Len(returned[k]) : returned[k][i] = (i <= config.limit)

\* Under a limit of 1 the key A was stopped, reset, allowed once and stopped
\* again (two alerts), and denied after that.
C17_Witness ==
    /\ config.limit = 1
    /\ config.limit_action = "stop"
    /\ AlertsFor("A") = 2
    /\ StoppedBeforeReset("A")
    /\ returned["A"] = <<TRUE, FALSE>>
    /\ "A" \in stopped

\* C18: reset_all leaves the count map, the stopped set and the alert log
\* empty, whatever state it finds, and leaves the enabled flag, the config and
\* the per-scope configs as it found them.
C18_ResetAllEmptiesStateOnly ==
    last_op.op = "reset_all" =>
        /\ counts = EmptyDict
        /\ stopped = {}
        /\ alerts = << >>
        /\ enabled = last_op.before.enabled
        /\ config = last_op.before.config
        /\ endpoints = last_op.before.endpoints

\* reset_all was made on a disabled limiter that held a count, a stopped key
\* and an alert.
C18_Witness ==
    /\ last_op.op = "reset_all"
    /\ last_op.before.counts # EmptyDict
    /\ last_op.before.stopped # {}
    /\ last_op.before.alerts # << >>
    /\ ~enabled

\* C19: a reset of a key never raises; on a key that has neither a count nor
\* a stopped flag it changes nothing; and a second reset of the same key
\* leaves the count map and the stopped set as the first reset left them.
C19_ResetIdempotent ==
    /\ \A k \in Keys :
          LET r1 == ResetState(counts, stopped, k)
              r2 == ResetState(r1.counts, r1.stopped, k)
          IN  /\ ~r1.raised /\ ~r2.raised
              /\ r2.counts = r1.counts /\ r2.stopped = r1.stopped
              /\ (k \notin DOMAIN counts /\ k \notin stopped)
                    => (r1.counts = counts /\ r1.stopped = stopped)
    /\ last_op.op = "reset" =>
          /\ ~last_op.raised
          /\ last_op.ret
          /\ ( /\ last_op.arg \notin DOMAIN last_op.before.counts
               /\ last_op.arg \notin last_op.before.stopped )
             => Snapshot = last_op.before

\* The key B, never seen, was reset on a limiter that holds a count, a stopped
\* flag and an alert for the key A.
C19_Witness ==
    /\ last_op.op = "reset"
    /\ last_op.arg = "B"
    /\ "B" \notin DOMAIN last_op.before.counts
    /\ "B" \notin last_op.before.stopped
    /\ returned["B"] = << >>
    /\ "A" \in DOMAIN counts
    /\ "A" \in stopped
    /\ AlertsFor("A") = 1

\* C20: get_alerts(limit), for every limit >= 0, returns the min(limit, n)
\* alerts appended last, the newest first (none for limit = 0), and leaves
\* the alert log as it was.
C20_GetAlertsReturnsNewestFirst ==
    last_op.op = "get_alerts" =>
        LET n == Len(last_op.before.alerts)
            m == Min(last_op.arg, n)
        IN  /\ last_op.ret = [i \in 1..m |-> last_op.before.alerts[n + 1 - i]]
            /\ alerts = last_op.before.alerts

\* --------------------------------------------------------------------
\* C21: a configuration with an unrecognized strategy string, an unrecognized
\* limit_action string or a rate outside [0,1] is rejected when it is
\* submitted and never becomes the configuration should_capture uses: the
\* limiter's config, the config a call in progress holds and the sampler's
\* config have a known action, a known strategy and rates within [0,1]
\* (rates are in hundredths).
ValidLimitConfig(c) ==
    c.limit_action \in {"stop", "sample"} /\ c.overflow_sample_rate \in 0..100

C21_InvalidConfigNeverActive ==
    /\ ValidLimitConfig(config)
    /\ \A t \in Threads : lpc[t] = "lock" => ValidLimitConfig(lframe[t].cfg)
    /\ sconfig.strategy \in Strategies
    /\ sconfig.base_rate \in 0..100

\* --------------------------------------------------------------------
\* C25: configuration is replaced atomically: a should_capture call that runs
\* while a reconfiguration is made sees the complete old configuration or the
\* complete new one.  For the dashboard's update of a limiter: a call that
\* read _enabled after the update began and holds its config before the
\* update has ended has the flag and config the update found, or the flag
\* and config the update leaves.
C25_CallSeesOldOrNewConfig ==
    upd.pc = "set_config" =>
        \A t \in upd.began :
            lpc[t] = "lock" =>
                [enabled |-> TRUE, config |-> lframe[t].cfg]
                    \in { upd.before,
                          [enabled |-> enabled,
                           config |-> UpdatedConfig(upd.data, upd.before.config)] }

\* --------------------------------------------------------------------
\* C22: a limiter fails open.  A should_capture call that finds the limiter
\* disabled returns allowed = true with no key and changes no count, stopped
\* key or alert; a TypeLimiter call whose body yields no type value (the body
\* is None or not a dict, a segment of the field path is absent, or the
\* value is None) does the same.
NoTypeValue(body, path) ==
    \/ body.k # "dict"
    \/ \E i \in 1..Len(path) :
          LET at == WalkPath(body, SubSeq(path, 1, i - 1)) IN
          at.k # "dict" \/ path[i] \notin DOMAIN at.d
    \/ WalkPath(body, path) = PyNone

ReturnsOpen(t) ==
    /\ lpc'[t] = "done"
    /\ lframe'[t].allowed
    /\ lframe'[t].type_value = NoKey
    /\ UNCHANGED <<counts, stopped, alerts>>

SamplerKept(t) == spc[t] = "done" /\ sframe[t].ret

C23_SamplerFirstThenLimiter ==
    [][ /\ ncalls' # ncalls => \E t \in Threads : dpc[t] = "limit" /\ SamplerKept(t)
        /\ ( \/ \E k \in Keys : Get(counts', k, 0) > Get(counts, k, 0)
             \/ ~(stopped' \subseteq stopped)
             \/ Len(alerts') > Len(alerts) )
           => \E t \in Threads : dpc[t] = "limiting" /\ SamplerKept(t)
        /\ \A t \in Threads :
              (dpc'[t] = "store" /\ dpc[t] # "store") =>
                  /\ SamplerKept(t)
                  /\ \/ dpc[t] = "sampling" /\ ~enabled
                     \/ dpc[t] = "limiting" /\ lpc[t] = "done" /\ lframe[t].allowed
        /\ captured_requests' # captured_requests =>
              \E t \in Threads : dpc[t] = "store" /\ SamplerKept(t) /\ dframe'[t].stored
      ]_vars

\* One request stored after the limiter counted it, and a second one, which
\* the sampler dropped, finished with the limiter as the first left it.
C23_Witness ==
    /\ nrequests = 2
    /\ dpc[1] = "finished"
    /\ dframe[1].processed
    /\ spc[1] = "done"
    /\ ~sframe[1].ret
    /\ Len(captured_requests) = 1
    /\ ncalls = 1
    /\ counts = ("A" :> 1)

\* --------------------------------------------------------------------
\* C24: a per-endpoint override governs the calls made through its endpoint.
\* A call for a type through an endpoint that carries its own config (action
\* "stop", limit L_E) is allowed exactly when fewer than L_E calls for that
\* type through that endpoint have been allowed, whatever calls were made
\* through other endpoints.
C24_OverrideGovernsItsEndpoint ==
    ( /\ last_op.op = "should_capture"
      /\ last_op.own
      /\ last_op.cfg.limit_action = "stop" )
    => (last_op.ret <=> last_op.seen < last_op.cfg.limit)

\* --------------------------------------------------------------------
\* C26: a task is claimed by at most one worker at a time.  A claim changes
\* the row only of a PENDING task, making it CLAIMED by the claiming worker;
\* and of the workers whose claim_task / claim_next_task succeeded on a task
\* since fail_task last made it PENDING there is at most one.
C26_OneClaimantPerTask ==
    [][ \A id \in DOMAIN hist' :
          /\ Cardinality(hist'[id].claimants) <= 1
          /\ (id \in DOMAIN hist /\ ~(hist'[id].claimants \subseteq hist[id].claimants)) =>
                /\ tasks[id].status = "pending"
                /\ tasks'[id].status = "claimed"
                /\ hist'[id].claimants = {tasks'[id].claimed_by} ]_vars

\* Two workers have called claim_task on the same task: one call returned the
\* task, the other returned None.
C26_Witness ==
    /\ 1 \in DOMAIN tasks
    /\ tasks[1].status = "claimed"
    /\ tasks[1].claimed_by = 2
    /\ wpc[1] = "done" /\ wframe[1].op = "claim_task" /\ wframe[1].id = 1 /\ wframe[1].ret = << >>
    /\ wpc[2] = "done" /\ wframe[2].op = "claim_task" /\ wframe[2].id = 1 /\ wframe[2].ret # << >>

\* --------------------------------------------------------------------
\* C27: task status transitions are guarded.  claim_task changes a task only
\* from PENDING (to CLAIMED), start_processing only from CLAIMED (to
\* PROCESSING), complete_task only from PROCESSING (to COMPLETED), and then
\* returns the task in its new status; called on a task in any other status
\* or on an unknown id, each returns None and leaves the table unchanged.
GuardedFrom(op) ==
    CASE op = "claim_task" -> "pending"
      [] op = "start_processing" -> "claimed"
      [] op = "complete_task" -> "processing"

GuardedTo(op) ==
    CASE op = "claim_task" -> "claimed"
      [] op = "start_processing" -> "processing"
      [] op = "complete_task" -> "completed"

\* Worker thread w, the only one at work, starts a method in this step.
Starts(w) ==
    /\ nops' = nops + 1
    /\ wpc[w] \in {"idle", "done"}
    /\ \A w2 \in Threads \ {w} : wpc[w2] = "idle"

C27_TransitionsAreGuarded ==
    [][ \A w \in Threads :
          LET f == wframe'[w] IN
          /\ (Starts(w) /\ f.op \in {"claim_task", "start_processing", "complete_task"}) =>
                IF f.id \in DOMAIN tasks /\ tasks[f.id].status = GuardedFrom(f.op)
                THEN /\ tasks'[f.id].status = GuardedTo(f.op)
                     /\ \A j \in DOMAIN tasks \ {f.id} : tasks'[j] = tasks[j]
                     /\ wpc'[w] = "read"
                ELSE /\ tasks' = tasks
                     /\ wpc'[w] = "done"
                     /\ f.ret = << >>
          /\ ( /\ wpc[w] = "read" /\ wpc'[w] = "done"
               /\ f.op \in {"claim_task", "start_processing", "complete_task"} ) =>
                /\ f.ret # << >>
                /\ f.ret[1].status = GuardedTo(f.op)
                /\ tasks' = tasks ]_vars

\* start_processing was refused on a PENDING task, complete_task on a
\* CLAIMED one.
C27_Witness ==
    /\ 1 \in DOMAIN tasks /\ 2 \in DOMAIN tasks
    /\ tasks[1].status = "pending"
    /\ tasks[2].status = "claimed"
    /\ wpc[1] = "done"
    /\ wframe[1].op = "complete_task"
    /\ wframe[1].id = 2
    /\ wframe[1].ret = << >>

\* --------------------------------------------------------------------
\* C28: claim_next_task without a priority filter claims, among the PENDING
\* tasks, one of the highest priority and, within it, the one created first
\* (ids are handed out in creation order); with a filter it claims only a
\* task of that priority; it returns None when no PENDING task matches.
C28_ClaimNextTakesHighestPriorityOldest ==
    [][ \A w \in Threads :
          LET f == wframe'[w]
              p == f.arg[2]
              Matching == { i \in DOMAIN tasks :
                              /\ tasks[i].status = "pending"
                              /\ p = NoPriority \/ tasks[i].priority = p }
          IN
          /\ (Starts(w) /\ f.op = "claim_next_task") =>
                /\ tasks' = tasks
                /\ IF Matching = {}
                   THEN wpc'[w] = "done" /\ f.ret = << >>
                   ELSE /\ wpc'[w] = "claim"
                        /\ f.id \in Matching
                        /\ \A j \in Matching :
                              \/ PriorityRank(tasks[f.id].priority) < PriorityRank(tasks[j].priority)
                              \/ /\ tasks[f.id].priority = tasks[j].priority
                                 /\ f.id <= j
                                 /\ tasks[f.id].created_at <= tasks[j].created_at
          /\ (wpc[w] = "claim" /\ wpc'[w] # "claim") =>
                /\ wpc'[w] = "read"
                /\ tasks'[f.id].status = "claimed"
                /\ tasks'[f.id].claimed_by = f.arg[1]
                /\ \A j \in DOMAIN tasks \ {f.id} : tasks'[j] = tasks[j] ]_vars

\* A low-priority task created first and a critical one created after it:
\* claim_next_task without a filter has claimed the critical one.
C28_Witness ==
    /\ 1 \in DOMAIN tasks /\ 2 \in DOMAIN tasks
    /\ tasks[1].priority = "low" /\ tasks[1].status = "pending"
    /\ tasks[2].priority = "critical" /\ tasks[2].status = "claimed"
    /\ wpc[1] = "done"
    /\ wframe[1].op = "claim_next_task"
    /\ wframe[1].arg[2] = NoPriority
    /\ wframe[1].ret # << >>

\* --------------------------------------------------------------------
\* C29: a task created with max_retries = M that is failed again and again is
\* FAILED on exactly its (M+1)-th failure, with retry_count = M: up to M
\* failures it is not FAILED and its retry_count is the number of failures;
\* from the (M+1)-th on it is FAILED with retry_count = M.
C29_FailedOnFailureAfterMaxRetries ==
    \A id \in DOMAIN tasks :
        LET h == hist[id]
            r == tasks[id]
        IN  IF h.failures <= h.max_retries
            THEN r.status # "failed" /\ r.retry_count = h.failures
            ELSE r.status = "failed" /\ r.retry_count = h.max_retries

\* --------------------------------------------------------------------
\* C30: a task keeps the max_retries it was created with: every Task a
\* method returns (create_task, get_task, the closing read of the workflow
\* methods) reports the value given at creation.
C30_ReadsReportCreatedMaxRetries ==
    \A w \in Threads :
        (wpc[w] = "done" /\ wframe[w].op # "none" /\ wframe[w].ret # << >>) =>
            wframe[w].ret[1].max_retries = hist[wframe[w].id].max_retries

\* --------------------------------------------------------------------
\* The set of top-level field names of a body or of query parameters; a
\* value that is not a dict has none.
FieldNames(v) == IF v.k = "items" THEN { v.items[i][1] : i \in 1..Len(v.items) } ELSE {}

\* The kind of a body: absent, a dict, or the name of its type.
BodyKind(v) == IF v.k = "items" THEN "dict" ELSE v.k

SameShape(a, b) ==
    /\ a.method = b.method
    /\ a.endpoint = b.endpoint
    /\ FieldNames(a.body) = FieldNames(b.body)
    /\ FieldNames(a.query) = FieldNames(b.query)

\* C34 as stated: the fingerprint depends only on the method, the endpoint
\* and the sets of top-level field names: two requests to the same method and
\* endpoint whose body keys and query keys are equal as sets get the same
\* fingerprint, and computing it changes no sampler state.
C34_FingerprintOfMethodEndpointAndKeySets ==
    [][ last_op'.op = "create_pattern_hash" =>
          /\ SameShape(last_op'.a, last_op'.b) => last_op'.hash_a = last_op'.hash_b
          /\ UNCHANGED <<samVars, kind, counts, stopped, alerts>> ]_vars

\* C34, amended: two requests to the same method and endpoint whose bodies
\* are of the same kind (both absent, both dicts, or both of the same other
\* type) and whose body keys and query keys are equal as sets get the same
\* fingerprint, whatever the order of the keys and whatever the values are;
\* computing it changes no sampler state.
C34_FingerprintOfBodyKindAndKeySets ==
    [][ last_op'.op = "create_pattern_hash" =>
          /\ (SameShape(last_op'.a, last_op'.b) /\ BodyKind(last_op'.a.body) = BodyKind(last_op'.b.body))
                => last_op'.hash_a = last_op'.hash_b
          /\ UNCHANGED <<samVars, kind, counts, stopped, alerts>> ]_vars

\* Two dict bodies with the same two keys in opposite orders and with
\* different values, hashed to the same fingerprint.
C34_Witness ==
    /\ last_op.op = "create_pattern_hash"
    /\ last_op.a.body = PyItems(<< <<"type", 1>>, <<"data", 1>> >>)
    /\ last_op.b.body = PyItems(<< <<"data", 2>>, <<"type", 2>> >>)
    /\ last_op.a.query = PyItems(<< <<"type", 1>> >>)
    /\ last_op.b.query = PyItems(<< <<"type", 2>> >>)
    /\ last_op.a.endpoint = last_op.b.endpoint
    /\ last_op.hash_a = last_op.hash_b

\* --------------------------------------------------------------------
\* C33: a should_capture call decided by the always-capture prefix match (the
\* endpoint matches an always-capture prefix and no never-capture prefix) or
\* by the slow override (the endpoint matches no never-capture prefix,
\* always_capture_slow is on, duration_ms >= latency_threshold_ms and the
\* status is not an error status) returns true and leaves the adaptive window,
\* the adaptive rate, the head counters and the seen-pattern sets unchanged.
DecidedByAlwaysOrSlow(cfg, f) ==
    /\ \A p \in cfg.never_capture_endpoints : ~PrefixMatch(f.endpoint, p)
    /\ \/ \E p \in cfg.always_capture_endpoints : PrefixMatch(f.endpoint, p)
       \/ /\ cfg.always_capture_slow
          /\ f.duration_ms # None
          /\ f.duration_ms >= cfg.latency_threshold_ms
          /\ f.status_code \notin cfg.error_status_codes

C33_AlwaysAndSlowTouchNothing ==
    [][ \A t \in Threads :
          ( /\ spc[t] \in {"idle", "done"}
            /\ nsamples' = nsamples + 1
            /\ \A t2 \in Threads \ {t} : spc'[t2] = spc[t2] /\ sframe'[t2] = sframe[t2]
            /\ DecidedByAlwaysOrSlow(sconfig, sframe'[t]) )
          => /\ spc'[t] = "done"
             /\ sframe'[t].ret
             /\ recent_requests' = recent_requests
             /\ adaptive_rate' = adaptive_rate
             /\ head_counts' = head_counts
             /\ seen_patterns' = seen_patterns
      ]_vars

\* Under ADAPTIVE one call has been recorded in the window; the next call
\* was slow, with status 200, and came back captured with the window as the
\* first call left it.
C33_Witness ==
    /\ sconfig.strategy = "adaptive"
    /\ sconfig.always_capture_slow
    /\ sconfig.always_capture_endpoints = {}
    /\ nsamples = 2
    /\ Len(recent_requests) = 1
    /\ spc[1] = "done"
    /\ sframe[1].endpoint = PathB
    /\ sframe[1].status_code = 200
    /\ sframe[1].duration_ms = 1000
    /\ sframe[1].ret

C35_CountWithinLimit ==
    /\ [](enabled =>
            /\ \A k \in DOMAIN counts : counts[k] <= config.limit
            /\ config.limit >= 1 =>
                  \A k \in Keys : (k \in stopped) <=> (Get(counts, k, 0) = config.limit))
    /\ [][ \A k \in Keys :
             Get(counts', k, 0) > Get(counts, k, 0) =>
                /\ Get(counts', k, 0) = Get(counts, k, 0) + 1
                /\ Get(counts, k, 0) < config.limit
                /\ \E t \in Threads :
                      /\ lpc[t] = "lock" /\ lpc'[t] = "done"
                      /\ lframe[t].key = k
                      /\ lframe'[t].allowed ]_vars

\* Under limit 2 with limit_action "sample" one key stands at the limit and
\* is stopped; the other key is below the limit and is not stopped.
C35_Witness ==
    /\ enabled
    /\ config.limit = 2
    /\ config.limit_action = "sample"
    /\ Get(counts, "A", 0) = 2 /\ "A" \in stopped
    /\ Get(counts, "B", 0) = 1 /\ "B" \notin stopped
    /\ \A t \in Threads : lpc[t] = "done"

\* --------------------------------------------------------------------
\* The last n elements of a sequence.
LastOf(seq, n) == SubSeq(seq, Len(seq) - n + 1, Len(seq))

\* C40: after every _store_captured_request the list of captured requests
\* holds at most _max_stored_requests entries, and they are the most
\* recently stored ones in storing order; clear_captured_requests empties the
\* list and returns the number of entries it removed.
C40_StoreKeepsNewestWithinCap ==
    /\ last_op.op = "store" =>
          /\ Len(captured_requests) <= MaxStored
          /\ captured_requests = LastOf(last_op.log, Min(Len(last_op.log), MaxStored))
    /\ last_op.op = "clear" =>
          /\ captured_requests = << >>
          /\ last_op.ret = Len(last_op.log)

\* More records than the list holds have been stored in a row: the first
\* was "/a" with 200 and is gone, the list holds the two stored last.
C40_Witness ==
    /\ last_op.op = "store"
    /\ Len(last_op.log) = MaxStored + 1
    /\ last_op.log[1] = [path |-> PathA, status_code |-> 200]
    /\ last_op.log[1] # last_op.log[2]
    /\ Len(captured_requests) = MaxStored
    /\ captured_requests[1] = last_op.log[2]

\* --------------------------------------------------------------------
\* C37: COMPLETED is terminal: no step of claim_task, claim_next_task,
\* start_processing, complete_task or fail_task changes the status, the
\* result or the retry_count of a task that is COMPLETED.
C37_CompletedIsTerminal ==
    [][ \A id \in DOMAIN tasks :
           tasks[id].status = "completed" =>
              /\ id \in DOMAIN tasks'
              /\ tasks'[id].status = "completed"
              /\ tasks'[id].result = tasks[id].result
              /\ tasks'[id].retry_count = tasks[id].retry_count ]_vars

\* --------------------------------------------------------------------
\* C38: a claim_next_task call returns None only when the table holds no
\* PENDING task at the moment it returns.
C38_ClaimNextNoneOnlyWhenNothingPending ==
    [][ \A w \in Threads :
           ( /\ wpc[w] # "done"
             /\ wpc'[w] = "done"
             /\ wframe'[w].op = "claim_next_task"
             /\ wframe'[w].ret = << >> ) =>
              \A id \in DOMAIN tasks' : tasks'[id].status # "pending" ]_vars

\* --------------------------------------------------------------------
\* C39: in every state of the task table a PENDING task has claimed_by and
\* claimed_at unset, and a CLAIMED or PROCESSING task has claimed_by set to
\* the worker whose claim UPDATE changed the row last.
C39_ClaimFieldsFollowStatus ==
    \A id \in DOMAIN tasks :
       /\ tasks[id].status = "pending" =>
             /\ tasks[id].claimed_by = None
             /\ tasks[id].claimed_at = None
       /\ tasks[id].status \in {"claimed", "processing"} =>
             /\ tasks[id].claimed_by # None
             /\ hist[id].claimants = {tasks[id].claimed_by}

\* Task 1 was claimed, failed back to PENDING with its claim fields cleared;
\* task 2 was claimed by worker 2 and is being processed under that claim.
C39_Witness ==
    /\ DOMAIN tasks = {1, 2}
    /\ tasks[1].status = "pending"
    /\ tasks[1].retry_count = 1
    /\ tasks[1].claimed_by = None
    /\ tasks[2].status = "processing"
    /\ tasks[2].claimed_by = 2

\* --------------------------------------------------------------------
\* The decision state of the two components: the sampler's seen-pattern
\* sets, head counters and adaptive window, a limiter's counts, stopped set
\* and alerts.
DecisionState ==
    {"_seen_patterns", "_head_counts", "_recent_requests", "counts", "stopped", "alerts"}

\* C31: every step of should_capture, get_stats, get_alerts, clear_alerts,
\* reset and reset_all that reads or writes the decision state of a
\* component is made by a thread that holds the component's lock, and the
\* decision state changes in no step but one made by the lock's holder.
C31_DecisionStateOnlyUnderLock ==
    /\ [](last_op.op # "none" =>
             (last_op.touched \cap DecisionState # {} => last_op.held))
    /\ [][ /\ <<counts, stopped, alerts>>' # <<counts, stopped, alerts>> =>
                 /\ lock["limiter"].holder # 0
                 /\ lock'["limiter"].holder = 0
           /\ <<seen_patterns, head_counts, recent_requests>>'
                 # <<seen_patterns, head_counts, recent_requests>> =>
                 /\ lock["sampler"].holder # 0
                 /\ lock'["sampler"].holder = 0 ]_vars

\* A should_capture call has just counted key "A" under the limiter's lock
\* while another thread stood at the same "with self._lock:".
C31_Witness ==
    /\ last_op.op = "should_capture"
    /\ last_op.component = "limiter"
    /\ last_op.held
    /\ "counts" \in last_op.touched
    /\ Get(counts, "A", 0) = 1
    /\ \E t \in Threads : lpc[t] = "lock"

====
